---- MODULE Spec2Model ----
(***************************************************************************)
(* State machine of the AI Dev Workspace extension: the terminal tracker   *)
(* (session registry), the worktree manager (orchestrator), the git        *)
(* service (gateway) and the commands of extension.ts that drive them.     *)
(* Every await of the source is a step boundary; code between two awaits   *)
(* runs as one step (single dispatch context of the extension host).       *)
(***************************************************************************)
EXTENDS Integers, Sequences, FiniteSets, TLC

\* ------------------------------------------------------------ bounds
\* terminals the host creates in one run (handles are 1..MaxTerminals)
MaxTerminals == 2
\* sessions started while worktrees are being removed (SpecRemove)
MaxSessions == 1
\* largest number of uncommitted files of one worktree
MaxChanges == 1

\* lines of a listing handed to parseWorktreeList
MaxLines == 4
MaxTracked == 3

\* ------------------------------------------------------------ values
Tools == {"claude", "aider"}

\* a tool's settings entry: enabled flag, and whether `args` is present
\* (an entry written without `args` makes the argument spread throw)
ToolConfigs ==
    { [enabled |-> TRUE,  hasArgs |-> TRUE],
      [enabled |-> FALSE, hasArgs |-> TRUE],
      [enabled |-> TRUE,  hasArgs |-> FALSE] }

\* aiDevWorkspace.cliTools as config.get returns it; the user edits the settings at
\* any time, so each read is an input of the step that reads
Settings == [Tools -> ToolConfigs]

\* label sequences a create request can carry
LabelSeqs ==
    { <<>>, <<"claude">>, <<"aider">>, <<"claude", "aider">>, <<"aider", "claude">> }

\* worktree names asked for, and names of worktrees that exist at start
Names == {"project-a"}
ExistingNames == {"project-b"}
Branches == {"feat"}

\* paths are sequences of segments below the filesystem root
rootPath == <<"repo">>
defaultWorktreeLocation == <<"..">>

RECURSIVE normalize(_, _)
normalize(segs, acc) ==
    IF segs = <<>> THEN acc
    ELSE IF Head(segs) = "" THEN normalize(Tail(segs), acc)
    ELSE IF Head(segs) = ".."
         THEN normalize(Tail(segs), IF acc = <<>> THEN acc ELSE SubSeq(acc, 1, Len(acc) - 1))
         ELSE normalize(Tail(segs), Append(acc, Head(segs)))

\* path.join(root, base, name)
pathJoin(root, base, name) == normalize(root \o base \o <<name>>, <<>>)

basename(p) == IF p = <<>> THEN "" ELSE p[Len(p)]

AllPaths ==
    {rootPath} \cup { pathJoin(rootPath, defaultWorktreeLocation, n) : n \in Names \cup ExistingNames }

RECURSIVE SetToSeq(_)
SetToSeq(S) ==
    IF S = {} THEN <<>>
    ELSE LET x == CHOOSE y \in S : TRUE IN <<x>> \o SetToSeq(S \ {x})

Range(seq) == { seq[i] : i \in 1..Len(seq) }

Min(S) == CHOOSE x \in S : \A y \in S : x <= y

\* ------------------------------------------------------------ state
VARIABLES
    terminals,      \* TerminalTracker.terminals: insertion-ordered map path -> TrackedTerminal[]
    openTerminals,  \* host terminals that exist (created, not yet closed)
    nextTerminal,   \* next terminal the host creates
    repo,           \* the repository's worktrees as git knows them, in listing order
    rm,             \* WorktreeManager.removeWorktree call in flight, or the last one's outcome
    cr,             \* WorktreeManager.createWorktree call in flight, or the last one's outcome
                    \* (cr.settings: the settings its startAICLI calls read)
    st,             \* startAICLI command in flight (interactive tool picker)
    delivered,      \* per listener of onDidChangeTerminals: the payloads it was called with in the last step
    refreshed,      \* WorktreeProvider.refresh() calls of the last step
    mutated,        \* observation: the buckets the registry calls of the last step changed, in call order
    live,           \* observation: sessions tracked and whose terminal was not closed since, in track order
    lastEvent,      \* observation: whether the last step closed a terminal, and which
    pending,        \* the tree view was told that its data changed and has not read it again since
    sent,           \* observation: the terminals startAICLI sent its command line to in the last step
    gc,             \* WorktreeProvider.getChildren call in flight, or the last one's outcome
    gw,             \* the last call of GitService.createWorktree / removeWorktree and its result
    pw,             \* the last call of GitService.parseWorktreeList: its output argument and its result
    tt,             \* TerminalTracker.instance and who holds it: how many trackers were constructed, how many
                    \* onDidCloseTerminal listeners they registered, the tracker of the manager and of the provider
    vc,             \* WorktreeManager.validateCreateOptions call in flight, or the last one's outcome
    vg              \* the last call of GitService.validateGitVersion: banner, minimum and result

vars == <<terminals, openTerminals, nextTerminal, repo, rm, cr, st,
          delivered, refreshed, mutated, live, lastEvent, pending, sent, gc, gw, pw, tt, vc, vg>>

\* the listeners registered on onDidChangeTerminals: the one WorktreeProvider of activate()
Listeners == <<"WorktreeProvider">>

NoneDelivered == [ l \in { Listeners[i] : i \in 1..Len(Listeners) } |-> <<>> ]

\* ------------------------------------------------------------ Map<string, T[]>
\* an insertion-ordered map is a sequence of [key, val] entries with distinct keys
MapKeys(m) == { m[i].key : i \in 1..Len(m) }
MapHas(m, k) == k \in MapKeys(m)
MapIndex(m, k) == CHOOSE i \in 1..Len(m) : m[i].key = k
MapGet(m, k) == IF MapHas(m, k) THEN m[MapIndex(m, k)].val ELSE <<>>
MapSet(m, k, v) ==
    IF MapHas(m, k) THEN [m EXCEPT ![MapIndex(m, k)].val = v]
    ELSE Append(m, [key |-> k, val |-> v])
MapDelete(m, k) ==
    IF MapHas(m, k)
    THEN LET i == MapIndex(m, k) IN SubSeq(m, 1, i - 1) \o SubSeq(m, i + 1, Len(m))
    ELSE m

\* ------------------------------------------------------------ the world threaded through synchronous code
\* W carries the variables a synchronous run of handler code reads and writes; every
\* step starts with nothing delivered, refreshed or mutated; `threw` is whether the
\* async function called last rejected.
World ==
    [ terminals |-> terminals, openTerminals |-> openTerminals, nextTerminal |-> nextTerminal,
      delivered |-> NoneDelivered, refreshed |-> 0, mutated |-> <<>>, live |-> live,
      pending |-> pending, sent |-> <<>>, threw |-> FALSE ]

Commit(W) ==
    /\ terminals' = W.terminals
    /\ openTerminals' = W.openTerminals
    /\ nextTerminal' = W.nextTerminal
    /\ delivered' = W.delivered
    /\ refreshed' = W.refreshed
    /\ mutated' = W.mutated
    /\ live' = W.live
    /\ sent' = W.sent
    /\ pending' = W.pending

\* ------------------------------------------------------------ TerminalTracker
refresh_never(W) == W

\* WorktreeProvider.refresh(): fire onDidChangeTreeData, which tells the tree view to read
\* its data again
refresh(W) == [W EXCEPT !.refreshed = @ + 1, !.pending = TRUE]

\* EventEmitter.fire(worktreePath): every listener is called once with the payload;
\* the provider's listener calls refresh()
RECURSIVE fireTo(_, _, _)
fireTo(W, ls, payload) ==
    IF ls = <<>> THEN W
    ELSE fireTo(refresh([W EXCEPT !.delivered[Head(ls)] = Append(@, payload)]), Tail(ls), payload)

fire(W, payload) == fireTo(W, Listeners, payload)

\* a TrackedTerminal; startTime is `new Date()`, which no code reads
TrackedTerminal(terminal, worktreePath, cliName) ==
    [ terminal |-> terminal, cliName |-> cliName, worktreePath |-> worktreePath,
      startTime |-> "Date" ]

trackTerminal_noFire(W, terminal, worktreePath, cliName) ==
    LET tracked == TrackedTerminal(terminal, worktreePath, cliName)
        existing == Append(MapGet(W.terminals, worktreePath), tracked)
    IN  [W EXCEPT !.terminals = MapSet(@, worktreePath, existing)]

trackTerminal_overwrite(W, terminal, worktreePath, cliName) ==
    LET tracked == TrackedTerminal(terminal, worktreePath, cliName)
    IN  fire([W EXCEPT !.terminals = MapSet(@, worktreePath, <<tracked>>)], worktreePath)

\* push onto the path's bucket (a new bucket when there is none), then one event
trackTerminal(W, terminal, worktreePath, cliName) ==
    LET tracked == TrackedTerminal(terminal, worktreePath, cliName)
        existing == Append(MapGet(W.terminals, worktreePath), tracked)
    IN  fire([W EXCEPT !.terminals = MapSet(@, worktreePath, existing)], worktreePath)

\* Array.findIndex on t.terminal === terminal; positions are 1-based here, 0 is "not found" (-1)
findIndex(list, terminal) ==
    IF \E i \in 1..Len(list) : list[i].terminal = terminal
    THEN Min({ i \in 1..Len(list) : list[i].terminal = terminal })
    ELSE 0

\* Array.splice(index, 1)
splice(list, index) == SubSeq(list, 1, index - 1) \o SubSeq(list, index + 1, Len(list))

removeTerminal_keepEmpty(W, terminal) ==
    LET hits == { k \in 1..Len(W.terminals) : findIndex(W.terminals[k].val, terminal) # 0 }
    IN  IF hits = {} THEN W
        ELSE LET entry == W.terminals[Min(hits)]
                 rest == splice(entry.val, findIndex(entry.val, terminal))
             IN  fire([W EXCEPT !.terminals = MapSet(@, entry.key, rest)], entry.key)

removeTerminal_alwaysFire(W, terminal) ==
    LET hits == { k \in 1..Len(W.terminals) : findIndex(W.terminals[k].val, terminal) # 0 }
    IN  IF hits = {} THEN fire(W, <<>>)
        ELSE LET entry == W.terminals[Min(hits)]
                 rest == splice(entry.val, findIndex(entry.val, terminal))
             IN  fire([W EXCEPT !.terminals =
                          IF Len(rest) = 0 THEN MapDelete(@, entry.key)
                          ELSE MapSet(@, entry.key, rest)],
                      entry.key)

removeTerminal_everyMatch(W, terminal) ==
    LET hits == { k \in 1..Len(W.terminals) : findIndex(W.terminals[k].val, terminal) # 0 }
    IN  IF hits = {} THEN W
        ELSE LET entry == W.terminals[Min(hits)]
                 rest == SelectSeq(entry.val, LAMBDA s : s.terminal # terminal)
             IN  fire([W EXCEPT !.terminals =
                          IF Len(rest) = 0 THEN MapDelete(@, entry.key)
                          ELSE MapSet(@, entry.key, rest)],
                      entry.key)

\* the first bucket (in insertion order) holding the terminal loses its first match;
\* an emptied bucket is deleted; one event; nothing happens when no bucket holds it
removeTerminal(W, terminal) ==
    LET hits == { k \in 1..Len(W.terminals) : findIndex(W.terminals[k].val, terminal) # 0 }
    IN  IF hits = {} THEN W
        ELSE LET entry == W.terminals[Min(hits)]
                 rest == splice(entry.val, findIndex(entry.val, terminal))
             IN  fire([W EXCEPT !.terminals =
                          IF Len(rest) = 0 THEN MapDelete(@, entry.key)
                          ELSE MapSet(@, entry.key, rest)],
                      entry.key)

getTerminals(worktreePath) == MapGet(terminals, worktreePath)

RECURSIVE allCLIs(_)
allCLIs(m) ==
    IF m = <<>> THEN <<>>
    ELSE [ i \in 1..Len(Head(m).val) |-> Head(m).val[i].cliName ] \o allCLIs(Tail(m))

getActiveCLIs_everyPath(worktreePath) == allCLIs(terminals)

getActiveCLIs(worktreePath) ==
    [ i \in 1..Len(getTerminals(worktreePath)) |-> getTerminals(worktreePath)[i].cliName ]

hasActiveCLIs(worktreePath) == Len(getTerminals(worktreePath)) > 0

getAllActiveWorktrees == [ i \in 1..Len(terminals) |-> terminals[i].key ]

\* ------------------------------------------------------------ history of the registry calls
\* the buckets a call changed, by comparing the map before and after
ChangedPaths(before, after) ==
    { p \in AllPaths \cup MapKeys(before) \cup MapKeys(after) : MapGet(before, p) # MapGet(after, p) }

Observe(W, W1) == [W1 EXCEPT !.mutated = @ \o SetToSeq(ChangedPaths(W.terminals, W1.terminals))]

\* a track call, with the history it leaves
TrackCall(W, terminal, worktreePath, cliName) ==
    LET session == TrackedTerminal(terminal, worktreePath, cliName)
        W1 == Observe(W, trackTerminal(W, terminal, worktreePath, cliName))
    IN  [W1 EXCEPT !.live = Append(@, session)]

\* an untrack call (the host's onDidCloseTerminal listener), with the history it leaves
UntrackCall(W, terminal) ==
    LET W1 == Observe(W, removeTerminal(W, terminal))
    IN  [W1 EXCEPT !.live = SelectSeq(@, LAMBDA s : s.terminal # terminal)]

\* vscode.window.createTerminal: a terminal no one holds yet
createTerminal(W) ==
    [W EXCEPT !.openTerminals = @ \cup {W.nextTerminal}, !.nextTerminal = @ + 1]

\* ------------------------------------------------------------ WorktreeManager: starting CLI tools
launchCLI_untracked(W, worktreePath, name, config) ==
    LET terminal == W.nextTerminal
        W1 == createTerminal(W)
    IN  IF config.hasArgs
        THEN [W1 EXCEPT !.sent = Append(@, terminal)]
        ELSE [W1 EXCEPT !.threw = TRUE]

\* the tail of startAICLI: create and show the terminal, build the command line
\* (`...config.args` throws a TypeError when args is missing), send it, track the terminal
launchCLI(W, worktreePath, name, config) ==
    LET terminal == W.nextTerminal
        W1 == createTerminal(W)
    IN  IF config.hasArgs
        THEN TrackCall([W1 EXCEPT !.sent = Append(@, terminal)], terminal, worktreePath, name)
        ELSE [W1 EXCEPT !.threw = TRUE]

startAICLI_ignoreEnabled(W, worktreePath, cliToolName, cliTools) ==
    LET W0 == [W EXCEPT !.threw = FALSE]
    IN  IF cliToolName \in DOMAIN cliTools
        THEN launchCLI(W0, worktreePath, cliToolName, cliTools[cliToolName])
        ELSE W0

\* startAICLI(worktreePath, cliToolName) with the tool named: no await on this path,
\* so the whole call runs within the caller's step; a tool that is not enabled gets
\* an error message and the call returns normally
startAICLI(W, worktreePath, cliToolName, cliTools) ==
    LET W0 == [W EXCEPT !.threw = FALSE]
    IN  IF cliToolName \in DOMAIN cliTools /\ cliTools[cliToolName].enabled
        THEN launchCLI(W0, worktreePath, cliToolName, cliTools[cliToolName])
        ELSE W0

RECURSIVE startCLITools_abortAtFirst(_, _, _, _)
startCLITools_abortAtFirst(W, worktreePath, cliToolNames, cliTools) ==
    IF cliToolNames = <<>> THEN [W EXCEPT !.threw = FALSE]
    ELSE LET W1 == startAICLI(W, worktreePath, Head(cliToolNames), cliTools)
         IN  IF W1.threw THEN W1
             ELSE startCLITools_abortAtFirst(W1, worktreePath, Tail(cliToolNames), cliTools)

\* startCLITools: cliToolNames.map(startAICLI) calls every startAICLI in order, each
\* running to its end; Promise.all rejects when any of them threw
RECURSIVE startCLITools(_, _, _, _)
startCLITools(W, worktreePath, cliToolNames, cliTools) ==
    IF cliToolNames = <<>> THEN [W EXCEPT !.threw = FALSE]
    ELSE LET W1 == startAICLI(W, worktreePath, Head(cliToolNames), cliTools)
             W2 == startCLITools(W1, worktreePath, Tail(cliToolNames), cliTools)
         IN  [W2 EXCEPT !.threw = W1.threw \/ W2.threw]

\* ------------------------------------------------------------ GitService (gateway)
Word(s) == [word |-> s]
PathArg(p) == [path |-> p]

createWorktreeArgs_branchLast(worktreePath, branch, createBranch) ==
    <<Word("worktree"), Word("add")>>
      \o (IF createBranch THEN <<Word("-b"), Word(branch)>> ELSE <<>>)
      \o <<PathArg(worktreePath), Word(branch)>>

\* the argument list GitService.createWorktree hands to git.raw
createWorktreeArgs(worktreePath, branch, createBranch) ==
    <<Word("worktree"), Word("add")>>
      \o (IF createBranch THEN <<Word("-b"), Word(branch)>> ELSE <<>>)
      \o <<PathArg(worktreePath)>>
      \o (IF ~createBranch THEN <<Word(branch)>> ELSE <<>>)

\* the argument list GitService.removeWorktree hands to git.raw
removeWorktreeArgs(worktreePath, force) ==
    <<Word("worktree"), Word("remove")>>
      \o (IF force THEN <<Word("--force")>> ELSE <<>>)
      \o <<PathArg(worktreePath)>>

HasForce(args) == \E i \in 1..Len(args) : args[i] = Word("--force")
ArgPath(args) == args[CHOOSE i \in 1..Len(args) : "path" \in DOMAIN args[i]].path

RepoPaths == { repo[i].path : i \in 1..Len(repo) }
RepoIndex(p) == CHOOSE i \in 1..Len(repo) : repo[i].path = p

\* worktrees other than the main one; `git worktree lock` locks any of them at any time,
\* so the set of locked paths is an input of the step that lists
FeaturePaths == { repo[i].path : i \in 2..Len(repo) }

\* `git worktree list --porcelain`: one block of lines per worktree; a line is its first
\* word and, when a space follows it, the rest of the line as a sequence of parts (the
\* segments of a path, or one word)
porcelainBlock(e, locked) ==
    <<[kw |-> "worktree", rest |-> e.path]>>
      \o (IF e.bare THEN <<[kw |-> "bare"]>>
          ELSE <<[kw |-> "HEAD", rest |-> <<e.head>>], [kw |-> "branch", rest |-> <<e.branch>>]>>)
      \o (IF e.path \in locked THEN <<[kw |-> "locked"]>> ELSE <<>>)
      \o <<[kw |-> ""]>>

RECURSIVE porcelain(_, _)
porcelain(entries, locked) ==
    IF entries = <<>> THEN <<>>
    ELSE porcelainBlock(Head(entries), locked) \o porcelain(Tail(entries), locked)

SetField(r, f, v) == [k \in DOMAIN r \cup {f} |-> IF k = f THEN v ELSE r[k]]

\* `output.split('\n').filter(line => line.trim())`: blank lines are dropped
splitLines(output) == SelectSeq(output, LAMBDA line : line.kw # "")

\* `line.startsWith('<word> ')`: the word, a space, and the rest of the line
startsWithWord(line, word) == line.kw = word /\ "rest" \in DOMAIN line

\* `line === 'bare'`
isBareLine(line) == line.kw = "bare" /\ "rest" \notin DOMAIN line

isLockedLine_exact(line) == line.kw = "locked" /\ "rest" \notin DOMAIN line

isLockedLine_withReason(line) == line.kw = "locked" /\ "rest" \in DOMAIN line

\* `line.startsWith('locked')`: with or without a reason after it
isLockedLine(line) == line.kw = "locked"

\* `if (currentWorktree.path) worktrees.push(currentWorktree)`: an accumulator without a
\* path, or with the empty path, is not pushed
flush(worktrees, currentWorktree) ==
    IF "path" \in DOMAIN currentWorktree /\ currentWorktree.path # <<>>
    THEN Append(worktrees, currentWorktree)
    ELSE worktrees

flushAtEnd_never(worktrees, currentWorktree) == worktrees

\* the flush after the loop
flushAtEnd(worktrees, currentWorktree) == flush(worktrees, currentWorktree)

\* the accumulator after one line of the loop
parseLine(line, currentWorktree) ==
    IF startsWithWord(line, "worktree")
    THEN [path |-> line.rest, isMain |-> FALSE, isLocked |-> FALSE]
    ELSE IF startsWithWord(line, "HEAD") THEN SetField(currentWorktree, "commit", line.rest)
    ELSE IF startsWithWord(line, "branch") THEN SetField(currentWorktree, "branch", line.rest)
    ELSE IF isBareLine(line) THEN SetField(currentWorktree, "isMain", TRUE)
    ELSE IF isLockedLine(line) THEN SetField(currentWorktree, "isLocked", TRUE)
    ELSE currentWorktree

\* GitService.parseWorktreeList: line-oriented, one accumulator record
RECURSIVE parseLines(_, _, _)
parseLines(lines, currentWorktree, worktrees) ==
    IF lines = <<>>
    THEN flushAtEnd(worktrees, currentWorktree)
    ELSE parseLines(Tail(lines),
                    parseLine(Head(lines), currentWorktree),
                    IF startsWithWord(Head(lines), "worktree")
                    THEN flush(worktrees, currentWorktree) ELSE worktrees)

parseWorktreeList(output) == parseLines(splitLines(output), <<>>, <<>>)

\* GitService.listWorktrees on the repository as it is now
listWorktrees(locked) == parseWorktreeList(porcelain(repo, locked))

\* what git itself allows: `worktree add` needs a free path
GitCanAdd(worktreePath) == worktreePath \notin RepoPaths

\* what git itself allows: `worktree remove` needs a worktree at the path and refuses
\* the main working tree (it may also refuse for locks or modified files, or fail)
GitCanRemove(worktreePath) ==
    /\ worktreePath \in RepoPaths
    /\ RepoIndex(worktreePath) # 1

\* ------------------------------------------------------------ records handed to removeWorktree
enrich_noLabels(wt, changes) ==
    SetField(SetField(wt, "changes", changes), "activeCLIs", <<>>)

\* WorktreeProvider.getChildren enrichment: { ...wt, changes, activeCLIs }, changes being
\* what GitService.getChangesCount returns (the number of files in `git status`, an input)
enrich(wt, changes) ==
    SetField(SetField(wt, "changes", changes), "activeCLIs", getActiveCLIs(wt.path))

Listings == { listWorktrees(locked) : locked \in SUBSET FeaturePaths }

\* the tree view's items (WorktreeTreeItem.worktree)
TreeItems ==
    { enrich(l[i], n) : <<l, i, n>> \in { x \in Listings \X (1..Len(repo)) \X (0..MaxChanges) : TRUE } }

\* the palette's pick list: listWorktrees().filter(wt => !wt.isMain)
nonMainWorktrees ==
    { x[1][x[2]] : x \in { y \in Listings \X (1..Len(repo)) : ~y[1][y[2]].isMain } }

\* ------------------------------------------------------------ Init
noWorktree == [ path |-> <<>>, isMain |-> FALSE, isLocked |-> FALSE ]

rmIdle ==
    [ pc |-> "idle", entry |-> "none", wt |-> noWorktree, hasChanges |-> FALSE,
      message |-> "none", confirmation |-> "none", gitArgs |-> <<>>, result |-> "none" ]

noOptions ==
    [ name |-> "", branch |-> "", basePath |-> <<>>, createBranch |-> FALSE,
      cliTools |-> <<>>, openInNewWindow |-> FALSE, autoStartTerminal |-> FALSE ]

\* no tool enabled
noSettings == [ t \in Tools |-> [enabled |-> FALSE, hasArgs |-> TRUE] ]

crIdle ==
    [ pc |-> "idle", options |-> noOptions, fullPath |-> <<>>, gitArgs |-> <<>>,
      gitOk |-> "none", opened |-> <<>>, settings |-> noSettings, rejected |-> FALSE,
      result |-> "none" ]

stIdle == [ pc |-> "idle", path |-> <<>>, items |-> <<>> ]

\* no getChildren call yet
gcIdle ==
    [ pc |-> "idle", listOk |-> FALSE, worktrees |-> <<>>, status |-> <<>>, enriched |-> <<>>,
      registry |-> <<>>, result |-> <<>> ]

\* no gateway call yet
gwIdle ==
    [ pc |-> "idle", op |-> "none", worktreePath |-> <<>>, branch |-> "", invocations |-> <<>>,
      outcome |-> [resolved |-> TRUE], result |-> [none |-> TRUE] ]

\* no parseWorktreeList call yet
pwIdle == [ output |-> <<>>, called |-> FALSE, worktrees |-> <<>> ]

\* before activate(): no tracker constructed
ttNone ==
    [ instance |-> 0, constructed |-> 0, closeListeners |-> 0, manager |-> 0, provider |-> 0,
      other |-> 0 ]

\* after activate(): the manager and the provider were constructed
ttActivated == [ttNone EXCEPT !.instance = 1, !.constructed = 1, !.closeListeners = 1,
                              !.manager = 1, !.provider = 1]

\* no validateCreateOptions call yet
vcIdle ==
    [ pc |-> "idle", name |-> "", branch |-> "", createBranch |-> FALSE, fullPath |-> <<>>,
      known |-> FALSE, local |-> <<>>, offered |-> <<>>, answered |-> FALSE,
      exists |-> "none", stat |-> "none", errors |-> <<>> ]

\* no validateGitVersion call yet
vgIdle == [ banner |-> <<>>, minVersion |-> <<>>, called |-> FALSE, resolved |-> FALSE, result |-> FALSE ]

\* lastEvent tells a step that closed a terminal (and whether it was tracked) from any other
noEvent == [ op |-> "other", terminal |-> 0, tracked |-> FALSE ]

\* the main worktree (first in git's listing), bare or not
MainEntry(bare) ==
    [ path |-> rootPath, head |-> "c0", branch |-> "refs/heads/main", bare |-> bare ]

FeatureEntry(name, branch) ==
    [ path |-> pathJoin(rootPath, defaultWorktreeLocation, name), head |-> "c0",
      branch |-> branch, bare |-> FALSE ]

\* repositories the extension can be opened on
FeaturePathsAtStart == { pathJoin(rootPath, defaultWorktreeLocation, n) : n \in ExistingNames }

InitRepos ==
    { <<MainEntry(b)>> : b \in BOOLEAN }
      \cup { <<MainEntry(b), FeatureEntry(n, "refs/heads/old")>> : b \in BOOLEAN, n \in ExistingNames }

\* everything but the repository and the parser call
InitRest ==
    /\ terminals = <<>>
    /\ openTerminals = {}
    /\ nextTerminal = 1
    /\ rm = rmIdle
    /\ cr = crIdle
    /\ st = stIdle
    /\ delivered = NoneDelivered
    /\ refreshed = 0
    /\ mutated = <<>>
    /\ live = <<>>
    /\ lastEvent = noEvent
    /\ sent = <<>>
    /\ pending = FALSE
    /\ gc = gcIdle
    /\ gw = gwIdle
    /\ vc = vcIdle

\* activate() has run: one tracker, held by the manager and by the provider
Init ==
    /\ InitRest
    /\ repo \in InitRepos
    /\ pw = pwIdle
    /\ tt = ttActivated
    /\ vg = vgIdle

\* ------------------------------------------------------------ host and environment
\* observation: a session was tracked with this terminal and the terminal is still open
IsTracked(terminal) == \E i \in 1..Len(live) : live[i].terminal = terminal

\* the host reports a terminal closed: the tracker's onDidCloseTerminal listener runs
CloseTerminal(t) ==
    /\ t \in openTerminals
    /\ Commit(UntrackCall([World EXCEPT !.openTerminals = @ \ {t}], t))
    /\ lastEvent' = [ op |-> "close", terminal |-> t, tracked |-> IsTracked(t) ]
    /\ UNCHANGED <<tt, vc, vg, repo, rm, cr, st, gc, gw, pw>>

\* the number of sessions in the registry
RECURSIVE CountTracked(_)
CountTracked(m) == IF m = <<>> THEN 0 ELSE Len(Head(m).val) + CountTracked(Tail(m))

\* trackTerminal called directly by a holder of the instance, with any terminal that
\* exists: the method is public and checks nothing, so a terminal can be tracked again
TrackTerminal(t, worktreePath, cliName) ==
    /\ t \in openTerminals
    /\ CountTracked(terminals) < MaxTracked
    /\ Commit(TrackCall(World, t, worktreePath, cliName))
    /\ lastEvent' = [ op |-> "track", terminal |-> t, tracked |-> TRUE ]
    /\ UNCHANGED <<tt, vc, vg, repo, rm, cr, st, gc, gw, pw>>

\* command aiDevWorkspace.openWorktreeTerminal -> WorktreeManager.openTerminal: a plain
\* terminal in the worktree, not tracked
OpenWorktreeTerminal(worktreePath) ==
    /\ nextTerminal <= MaxTerminals
    /\ worktreePath \in RepoPaths
    /\ Commit(createTerminal(World))
    /\ lastEvent' = noEvent
    /\ UNCHANGED <<tt, vc, vg, repo, rm, cr, st, gc, gw, pw>>

\* ------------------------------------------------------------ command aiDevWorkspace.startAICLI
\* startAICLI(path) without a tool name: list the enabled tools and ask
StartAICLICommand(worktreePath) ==
    /\ st.pc = "idle"
    /\ worktreePath \in RepoPaths
    /\ \E cliTools \in Settings :
          LET enabledTools == { t \in DOMAIN cliTools : cliTools[t].enabled }
          IN  st' = IF enabledTools = {} THEN stIdle
                    ELSE [ pc |-> "pick", path |-> worktreePath,
                           items |-> [ t \in enabledTools |-> cliTools[t] ] ]
    /\ Commit(World)
    /\ lastEvent' = noEvent
    /\ UNCHANGED <<tt, vc, vg, repo, rm, cr, gc, gw, pw>>

\* the quick pick answers: a tool, or nothing (dismissed)
StartAICLIPick(selected) ==
    /\ st.pc = "pick"
    /\ selected \in DOMAIN st.items \cup {"none"}
    /\ IF selected = "none"
       THEN Commit(World)
       ELSE /\ nextTerminal <= MaxTerminals
            /\ Commit(launchCLI(World, st.path, selected, st.items[selected]))
    /\ st' = stIdle
    /\ lastEvent' = noEvent
    /\ UNCHANGED <<tt, vc, vg, repo, rm, cr, gc, gw, pw>>

\* ------------------------------------------------------------ WorktreeManager.removeWorktree
hasChanges_whenDefined(worktree) == "changes" \in DOMAIN worktree

\* `worktree.changes && worktree.changes > 0`: falsy when changes is absent or 0
hasChanges(worktree) == "changes" \in DOMAIN worktree /\ worktree.changes > 0

\* the modal warning's text: the uncommitted-changes warning, or the plain question
warningMessage(worktree) == IF hasChanges(worktree) THEN "uncommitted" ELSE "plain"

Confirmations == {"Remove", "Cancel", "undefined"}

proceeds_unlessCancel(confirmation) == confirmation # "Cancel"

\* `if (confirmation !== 'Remove') return false`
proceeds(confirmation) == confirmation = "Remove"

\* the fields of a WorktreeInfo that removeWorktree and its callers read
ReadFields(worktree) ==
    [ k \in DOMAIN worktree \cap {"path", "isMain", "isLocked", "changes"} |-> worktree[k] ]

\* removeWorktree up to its first await: the confirmation prompt is shown
RemoveBegin(entry, worktree) ==
    /\ rm.pc \in {"idle", "done"}
    /\ rm' = [ pc |-> "prompt", entry |-> entry, wt |-> ReadFields(worktree),
               hasChanges |-> hasChanges(worktree), message |-> warningMessage(worktree),
               confirmation |-> "none", gitArgs |-> <<>>, result |-> "none" ]
    /\ Commit(World)
    /\ lastEvent' = noEvent
    /\ UNCHANGED <<tt, vc, vg, repo, cr, st, gc, gw, pw>>

\* command aiDevWorkspace.removeWorktreeItem: the tree item's record goes to removeWorktree
RemoveWorktreeItem(item) ==
    /\ item \in TreeItems
    /\ RemoveBegin("item", item)

\* command aiDevWorkspace.removeWorktree: list, drop the main records, pick one
RemoveWorktreeFromPalette(selected) ==
    /\ selected \in nonMainWorktrees
    /\ RemoveBegin("palette", selected)

\* removeWorktree has returned; the record of the call stays as its outcome
RemoveReturned(r, result) == [r EXCEPT !.pc = "done", !.result = result]

\* the prompt is answered; on 'Remove' the gateway's removeWorktree is invoked with
\* force = hasChanges ? true : false; on anything else removeWorktree returns false
RemoveConfirm(confirmation) ==
    /\ rm.pc = "prompt"
    /\ confirmation \in Confirmations
    /\ rm' = IF proceeds(confirmation)
             THEN [rm EXCEPT !.pc = "git", !.confirmation = confirmation,
                             !.gitArgs = removeWorktreeArgs(rm.wt.path,
                                                            IF rm.hasChanges THEN TRUE ELSE FALSE)]
             ELSE RemoveReturned([rm EXCEPT !.confirmation = confirmation], "false")
    /\ Commit(World)
    /\ lastEvent' = noEvent
    /\ UNCHANGED <<tt, vc, vg, repo, cr, st, gc, gw, pw>>

RemoveGitDone_untracking(ok) ==
    /\ rm.pc = "git"
    /\ ok \in BOOLEAN
    /\ ok => GitCanRemove(ArgPath(rm.gitArgs))
    /\ IF ok
       THEN /\ repo' = SelectSeq(repo, LAMBDA e : e.path # ArgPath(rm.gitArgs))
            /\ rm' = RemoveReturned(rm, "true")
            /\ Commit(refresh([World EXCEPT !.terminals = MapDelete(@, ArgPath(rm.gitArgs))]))
       ELSE /\ repo' = repo
            /\ rm' = RemoveReturned(rm, "false")
            /\ Commit(World)
    /\ lastEvent' = noEvent
    /\ UNCHANGED <<tt, vc, vg, cr, st, gc, gw, pw>>

\* git answers the remove call: on success the worktree is gone, removeWorktree returns
\* true and the command refreshes the provider; on failure the error is shown and it
\* returns false
RemoveGitDone(ok) ==
    /\ rm.pc = "git"
    /\ ok \in BOOLEAN
    /\ ok => GitCanRemove(ArgPath(rm.gitArgs))
    /\ IF ok
       THEN /\ repo' = SelectSeq(repo, LAMBDA e : e.path # ArgPath(rm.gitArgs))
            /\ rm' = RemoveReturned(rm, "true")
            /\ Commit(refresh(World))
       ELSE /\ repo' = repo
            /\ rm' = RemoveReturned(rm, "false")
            /\ Commit(World)
    /\ lastEvent' = noEvent
    /\ UNCHANGED <<tt, vc, vg, cr, st, gc, gw, pw>>

\* ------------------------------------------------------------ WorktreeManager.createWorktree
\* the options the create command builds (extension.ts, step 4)
CreateOptions(name, branch, createBranch, cliToolNames, autoOpenWindow, autoStartTerminal) ==
    [ name |-> name, branch |-> branch, basePath |-> defaultWorktreeLocation,
      createBranch |-> createBranch, cliTools |-> cliToolNames,
      openInNewWindow |-> autoOpenWindow,
      autoStartTerminal |-> (autoStartTerminal /\ Len(cliToolNames) > 0) ]

\* the create command hands its options to createWorktree, which runs up to its first
\* await: the gateway's createWorktree is invoked
CreateWorktree(name, branch, createBranch, cliToolNames, autoOpenWindow, autoStartTerminal) ==
    /\ cr.pc \in {"idle", "done"}
    /\ LET options == CreateOptions(name, branch, createBranch, cliToolNames,
                                    autoOpenWindow, autoStartTerminal)
           fullPath == pathJoin(rootPath, options.basePath, options.name)
       IN  cr' = [ pc |-> "git", options |-> options, fullPath |-> fullPath,
                   gitArgs |-> createWorktreeArgs(fullPath, options.branch, options.createBranch),
                   gitOk |-> "none", opened |-> <<>>, settings |-> noSettings,
                   rejected |-> FALSE, result |-> "none" ]
    /\ Commit(World)
    /\ lastEvent' = noEvent
    /\ UNCHANGED <<tt, vc, vg, repo, rm, st, gc, gw, pw>>

\* createWorktree has returned; the record of the call stays as its outcome
CreateReturned(c, result) == [c EXCEPT !.pc = "done", !.result = result]

\* the code after the window step: start the CLI tools when asked to (all of them within
\* this step, then wait for Promise.all), else finish with success and refresh the provider
StartToolsOrFinish(c) ==
    IF c.options.autoStartTerminal /\ Len(c.options.cliTools) > 0
    THEN \E cliTools \in Settings :
           LET W == startCLITools(World, c.fullPath, c.options.cliTools, cliTools)
           IN  /\ W.nextTerminal <= MaxTerminals + 1
               /\ Commit(W)
               /\ cr' = [c EXCEPT !.pc = "tools", !.settings = cliTools, !.rejected = W.threw]
    ELSE /\ Commit(refresh(World))
         /\ cr' = CreateReturned(c, "true")

throwsOnFailure_never(success) == FALSE

\* `if (!result.success) throw new Error(...)`
throwsOnFailure(success) == ~success

\* git answers the add call: failure throws (caught: error message, return false);
\* success goes on to the window step, or directly to the tools
CreateGitDone(ok) ==
    /\ cr.pc = "git"
    /\ ok \in BOOLEAN
    /\ ok => GitCanAdd(ArgPath(cr.gitArgs))
    /\ repo' = IF ok THEN Append(repo, FeatureEntry(cr.options.name, cr.options.branch)) ELSE repo
    /\ LET c == [cr EXCEPT !.gitOk = IF ok THEN "true" ELSE "false"]
       IN  IF throwsOnFailure(ok)
           THEN /\ cr' = CreateReturned(c, "false")
                /\ Commit(World)
           ELSE IF c.options.openInNewWindow
                THEN /\ cr' = [c EXCEPT !.pc = "open", !.opened = c.fullPath]
                     /\ Commit(World)
                ELSE StartToolsOrFinish(c)
    /\ lastEvent' = noEvent
    /\ UNCHANGED <<tt, vc, vg, rm, st, gc, gw, pw>>

\* vscode.openFolder answers: a rejection is caught like any other error
CreateOpenDone(ok) ==
    /\ cr.pc = "open"
    /\ ok \in BOOLEAN
    /\ IF ok
       THEN StartToolsOrFinish(cr)
       ELSE /\ cr' = CreateReturned(cr, "false")
            /\ Commit(World)
    /\ lastEvent' = noEvent
    /\ UNCHANGED <<tt, vc, vg, repo, rm, st, gc, gw, pw>>

\* Promise.all settles: rejected when a startAICLI threw (caught: return false),
\* else success and the command refreshes the provider
CreateToolsDone ==
    /\ cr.pc = "tools"
    /\ IF cr.rejected
       THEN /\ cr' = CreateReturned(cr, "false")
            /\ Commit(World)
       ELSE /\ cr' = CreateReturned(cr, "true")
            /\ Commit(refresh(World))
    /\ lastEvent' = noEvent
    /\ UNCHANGED <<tt, vc, vg, repo, rm, st, gc, gw, pw>>

\* ------------------------------------------------------------ WorktreeProvider.getChildren
\* the final path segments in the order String.prototype.localeCompare puts them
NameOrder == <<"project-a", "project-b", "repo">>

Rank(n) == CHOOSE i \in 1..Len(NameOrder) : NameOrder[i] = n

localeCompare(a, b) == IF Rank(a) < Rank(b) THEN -1 ELSE IF Rank(a) > Rank(b) THEN 1 ELSE 0

compare_nameOnly(a, b) == localeCompare(basename(a.path), basename(b.path))

\* the comparator of enrichedWorktrees.sort: main first, then by name
compare(a, b) ==
    IF a.isMain THEN -1
    ELSE IF b.isMain THEN 1
    ELSE localeCompare(basename(a.path), basename(b.path))

\* Array.prototype.sort is stable; for a consistent comparator every implementation returns
\* the list this insertion sort returns
RECURSIVE insert(_, _)
insert(sorted, x) ==
    IF sorted = <<>> THEN <<x>>
    ELSE LET last == sorted[Len(sorted)]
         IN  IF compare(x, last) < 0
             THEN Append(insert(SubSeq(sorted, 1, Len(sorted) - 1), x), last)
             ELSE Append(sorted, x)

RECURSIVE sort(_)
sort(list) ==
    IF list = <<>> THEN <<>>
    ELSE insert(sort(SubSeq(list, 1, Len(list) - 1)), list[Len(list)])

\* `git status` of a worktree as simple-git reports it: the number of files, or -1 when
\* the invocation fails
Statuses == -1..MaxChanges

getChangesCount_raw(status) == status

\* GitService.getChangesCount: status.files.length, or 0 when status() throws
getChangesCount(status) == IF status = -1 THEN 0 ELSE status

\* the tree view reads its data: getChildren(undefined) up to its first await, where
\* listWorktrees is invoked
GetChildren ==
    /\ gc.pc \in {"idle", "done"}
    /\ gc' = [gcIdle EXCEPT !.pc = "list"]
    /\ Commit([World EXCEPT !.pending = FALSE])
    /\ lastEvent' = noEvent
    /\ UNCHANGED <<tt, vc, vg, repo, rm, cr, st, gw, pw>>

\* git answers the listing (a failure is caught by listWorktrees, which returns []); the
\* map callback runs for every worktree up to its await, so all lookups are in flight;
\* Promise.all of no lookups resolves at once and getChildren returns no items
ListWorktreesDone(ok) ==
    /\ gc.pc = "list"
    /\ ok \in BOOLEAN
    /\ \E locked \in SUBSET FeaturePaths :
          LET worktrees == IF ok THEN listWorktrees(locked) ELSE <<>>
              paths == { worktrees[i].path : i \in 1..Len(worktrees) }
          IN  IF worktrees = <<>>
              THEN gc' = [gc EXCEPT !.pc = "done", !.listOk = ok, !.result = sort(<<>>)]
              ELSE \E status \in [paths -> Statuses] :
                     gc' = [gc EXCEPT !.pc = "enrich", !.listOk = ok, !.worktrees = worktrees,
                                      !.status = status]
    /\ Commit(World)
    /\ lastEvent' = noEvent
    /\ UNCHANGED <<tt, vc, vg, repo, rm, cr, st, gw, pw>>

\* the lookup of worktree i settles: its callback resumes, reads the tracker and returns
\* (gc.registry[i] keeps, as an observation, the registry as it was at that read)
\* its record; when it was the last one Promise.all resolves with the records in the
\* order of the worktrees, they are sorted and wrapped into tree items
ChangesCountDone(i) ==
    /\ gc.pc = "enrich"
    /\ i \in 1..Len(gc.worktrees)
    /\ i \notin DOMAIN gc.enriched
    /\ LET wt == gc.worktrees[i]
           record == enrich(wt, getChangesCount(gc.status[wt.path]))
           enriched == [ k \in DOMAIN gc.enriched \cup {i} |->
                           IF k = i THEN record ELSE gc.enriched[k] ]
           registry == [ k \in DOMAIN gc.enriched \cup {i} |->
                           IF k = i THEN terminals ELSE gc.registry[k] ]
       IN  gc' = IF DOMAIN enriched = 1..Len(gc.worktrees)
                 THEN [gc EXCEPT !.pc = "done", !.enriched = enriched, !.registry = registry,
                                 !.result = sort(enriched)]
                 ELSE [gc EXCEPT !.enriched = enriched, !.registry = registry]
    /\ Commit(World)
    /\ lastEvent' = noEvent
    /\ UNCHANGED <<tt, vc, vg, repo, rm, cr, st, gw, pw>>

\* `git worktree remove` run outside the extension: a linked worktree is gone, whatever
\* sessions the registry holds for it
WorktreeRemovedOutside(worktreePath) ==
    /\ GitCanRemove(worktreePath)
    /\ repo' = SelectSeq(repo, LAMBDA e : e.path # worktreePath)
    /\ Commit(World)
    /\ lastEvent' = noEvent
    /\ UNCHANGED <<tt, vc, vg, rm, cr, st, gc, gw, pw>>

\* ------------------------------------------------------------ TerminalTracker.getInstance
getInstance_alwaysNew(t) ==
    [t EXCEPT !.instance = t.constructed + 1, !.constructed = @ + 1, !.closeListeners = @ + 1]

\* getInstance(): construct the tracker when the static field is unset (the constructor
\* registers the onDidCloseTerminal listener); the result is the field, t.instance
getInstance(t) ==
    IF t.instance = 0
    THEN [t EXCEPT !.instance = t.constructed + 1, !.constructed = @ + 1, !.closeListeners = @ + 1]
    ELSE t

\* activate(): `new WorktreeManager` and then `new WorktreeProvider`, each asking for the
\* instance in its constructor
Activate ==
    /\ tt.manager = 0
    /\ LET t1 == getInstance(tt)
           t2 == getInstance([t1 EXCEPT !.manager = t1.instance])
       IN  tt' = [t2 EXCEPT !.provider = t2.instance]
    /\ Commit(World)
    /\ lastEvent' = noEvent
    /\ UNCHANGED <<vc, vg, repo, rm, cr, st, gc, gw, pw>>

\* some other consumer asks for the instance, before or after activate()
GetInstance ==
    /\ tt.other = 0
    /\ LET t == getInstance(tt) IN tt' = [t EXCEPT !.other = t.instance]
    /\ Commit(World)
    /\ lastEvent' = noEvent
    /\ UNCHANGED <<vc, vg, repo, rm, cr, st, gc, gw, pw>>

\* ------------------------------------------------------------ GitService called directly
\* what `await this.git.raw(args)` can do: resolve, reject with an Error that carries the
\* tool's message, or reject with a value that is not an Error
GitMessages ==
    { "fatal: 'feat' is already checked out", "fatal: invalid reference", "" }

ThrownValues == { [type |-> "string", s |-> "spawn git ENOENT"], [type |-> "number", n |-> 128] }

GitErrors ==
    { [isError |-> TRUE, message |-> m] : m \in GitMessages }
      \cup { [isError |-> FALSE, value |-> v] : v \in ThrownValues }

GitOutcomes == { [resolved |-> TRUE] } \cup { [resolved |-> FALSE, error |-> e] : e \in GitErrors }

\* String(value) of a thrown value that is not an Error
String(v) == IF v.type = "string" THEN v.s ELSE CASE v.n = 128 -> "128"

getErrorMessage_generic(error) == "Git operation failed"

\* GitService.getErrorMessage
getErrorMessage(error) == IF error.isError THEN error.message ELSE String(error.value)

\* the template strings `Worktree created at ${worktreePath}`, `Worktree removed: ${worktreePath}`
Template(text, worktreePath) == [text |-> text, path |-> worktreePath]

\* GitService.createWorktree up to its await: the argument list is built and git.raw invoked
GatewayCreateWorktree(worktreePath, branch, createBranch) ==
    /\ gw.pc \in {"idle", "done"}
    /\ gw' = [gwIdle EXCEPT !.pc = "raw", !.op = "create", !.worktreePath = worktreePath,
                            !.branch = branch,
                            !.invocations = <<createWorktreeArgs(worktreePath, branch, createBranch)>>]
    /\ Commit(World)
    /\ lastEvent' = noEvent
    /\ UNCHANGED <<tt, vc, vg, repo, rm, cr, st, gc, pw>>

\* GitService.removeWorktree up to its await
GatewayRemoveWorktree(worktreePath, force) ==
    /\ gw.pc \in {"idle", "done"}
    /\ gw' = [gwIdle EXCEPT !.pc = "raw", !.op = "remove", !.worktreePath = worktreePath,
                            !.invocations = <<removeWorktreeArgs(worktreePath, force)>>]
    /\ Commit(World)
    /\ lastEvent' = noEvent
    /\ UNCHANGED <<tt, vc, vg, repo, rm, cr, st, gc, pw>>

\* what the gateway returns once git.raw has settled: the try block's result, or the
\* catch block's
GatewayResult(op, worktreePath, outcome) ==
    IF outcome.resolved
    THEN [ success |-> TRUE,
           output |-> IF op = "create" THEN Template("Worktree created at ", worktreePath)
                      ELSE Template("Worktree removed: ", worktreePath) ]
    ELSE [ success |-> FALSE, error |-> getErrorMessage(outcome.error) ]

\* what the resolved invocation did to the repository
GitEffect(op, worktreePath, branch) ==
    IF op = "create"
    THEN Append(repo, [ path |-> worktreePath, head |-> "c0", branch |-> branch, bare |-> FALSE ])
    ELSE SelectSeq(repo, LAMBDA e : e.path # worktreePath)

\* git.raw settles and the gateway call returns
GitRawSettled ==
    /\ gw.pc = "raw"
    /\ \E outcome \in GitOutcomes :
         /\ outcome.resolved =>
               IF gw.op = "create" THEN GitCanAdd(gw.worktreePath) ELSE GitCanRemove(gw.worktreePath)
         /\ repo' = IF outcome.resolved THEN GitEffect(gw.op, gw.worktreePath, gw.branch) ELSE repo
         /\ gw' = [gw EXCEPT !.pc = "done", !.outcome = outcome,
                             !.result = GatewayResult(gw.op, gw.worktreePath, outcome)]
    /\ Commit(World)
    /\ lastEvent' = noEvent
    /\ UNCHANGED <<tt, vc, vg, rm, cr, st, gc, pw>>

\* ------------------------------------------------------------ GitService.parseWorktreeList called on its own
\* lines `git worktree list --porcelain` prints: worktree, HEAD, branch, bare, locked with
\* or without a reason, detached (which the parser does not know), and the blank line
\* between blocks
PorcelainLines ==
    { [kw |-> "worktree", rest |-> p] : p \in {rootPath} \cup FeaturePathsAtStart }
      \cup { [kw |-> "HEAD", rest |-> <<"c0">>], [kw |-> "branch", rest |-> <<"refs/heads/old">>],
              [kw |-> "bare"], [kw |-> "locked"], [kw |-> "locked", rest |-> <<"reason">>],
              [kw |-> "detached"], [kw |-> ""] }

PorcelainInputs == UNION { [1..n -> PorcelainLines] : n \in 0..MaxLines }

InitParse ==
    /\ InitRest
    /\ repo = <<MainEntry(FALSE)>>
    /\ \E output \in PorcelainInputs : pw = [pwIdle EXCEPT !.output = output]
    /\ tt = ttActivated
    /\ vg = vgIdle

\* parseWorktreeList(output)
ParseWorktreeList ==
    /\ ~pw.called
    /\ pw' = [pw EXCEPT !.called = TRUE, !.worktrees = parseWorktreeList(pw.output)]
    /\ Commit(World)
    /\ lastEvent' = noEvent
    /\ UNCHANGED <<tt, vc, vg, repo, rm, cr, st, gc, gw>>

\* ------------------------------------------------------------ WorktreeManager.validateCreateOptions
\* names a caller can pass as options.name, and how they are spelled
ValidateNames == Names \cup ExistingNames \cup {"feat auth", "Feat_1", ""}

Spelling(name) ==
    CASE name = "project-a" -> <<"p", "r", "o", "j", "e", "c", "t", "-", "a">>
      [] name = "project-b" -> <<"p", "r", "o", "j", "e", "c", "t", "-", "b">>
      [] name = "feat auth" -> <<"f", "e", "a", "t", " ", "a", "u", "t", "h">>
      [] name = "Feat_1"    -> <<"F", "e", "a", "t", "_", "1">>
      [] name = ""          -> <<>>
      [] name = "a"         -> <<"a">>
      [] name = "b"         -> <<"b">>
      [] name = "a b"       -> <<"a", " ", "b">>

LowerCase ==
    { "a", "b", "c", "d", "e", "f", "g", "h", "i", "j", "k", "l", "m",
      "n", "o", "p", "q", "r", "s", "t", "u", "v", "w", "x", "y", "z" }
UpperCase ==
    { "A", "B", "C", "D", "E", "F", "G", "H", "I", "J", "K", "L", "M",
      "N", "O", "P", "Q", "R", "S", "T", "U", "V", "W", "X", "Y", "Z" }
Digits == { "0", "1", "2", "3", "4", "5", "6", "7", "8", "9" }

\* /^[a-zA-Z0-9-_]+$/.test(name)
matchesNamePattern(name) ==
    /\ Len(Spelling(name)) > 0
    /\ \A i \in 1..Len(Spelling(name)) :
         Spelling(name)[i] \in LowerCase \cup UpperCase \cup Digits \cup {"-", "_"}

\* the name check
nameErrors(name) ==
    IF ~matchesNamePattern(name)
    THEN <<[text |-> "Worktree name must contain only letters, numbers, hyphens, and underscores"]>>
    ELSE <<>>

\* the branch check once branchExists has answered
branchErrors(errors, branch, exists) ==
    IF ~exists
    THEN Append(errors, [text |-> "Branch does not exist", branch |-> branch])
    ELSE errors

pathErrors_failFast(errors, fullPath, statResolved) ==
    IF statResolved /\ errors = <<>>
    THEN Append(errors, Template("Path already exists: ", fullPath))
    ELSE errors

\* the path check once fs.stat has settled: resolved means the path exists
pathErrors(errors, fullPath, statResolved) ==
    IF statResolved
    THEN Append(errors, Template("Path already exists: ", fullPath))
    ELSE errors

\* branch names a caller can pass as options.branch
ValidateBranches == { "main", "feat", "origin/feat", "gone" }

\* what git.branchLocal() reports as `all`
LocalBranchLists == { <<>>, <<"main">>, <<"main", "feat">>, <<"main", "origin/main">> }

\* GitService.branchExists: branches.all.includes(branchName), false when branchLocal rejects
branchExists(branchName, resolved, all) ==
    IF resolved THEN \E i \in 1..Len(all) : all[i] = branchName ELSE FALSE

\* validateCreateOptions up to its first await: the name check, then branchExists is
\* awaited unless a branch is to be created, else fs.stat
ValidateBegin(v, name, branch, createBranch) ==
    [v EXCEPT !.pc = IF ~createBranch THEN "branchExists" ELSE "stat",
              !.name = name, !.branch = branch, !.createBranch = createBranch,
              !.fullPath = pathJoin(rootPath, defaultWorktreeLocation, name),
              !.exists = "none", !.stat = "none",
              !.errors = nameErrors(name)]

\* validateCreateOptions called with options of the caller's choice
ValidateCreateOptions(name, branch, createBranch) ==
    /\ vc.pc \in {"idle", "done"}
    /\ vc' = ValidateBegin(vcIdle, name, branch, createBranch)
    /\ Commit(World)
    /\ lastEvent' = noEvent
    /\ UNCHANGED <<repo, rm, cr, st, gc, gw, pw, tt, vg>>

\* git.branchLocal() settles inside branchExists; a command that already read the local
\* branches for its picker sees the same ones again
BranchExistsDone(resolved) ==
    /\ vc.pc = "branchExists"
    /\ \E all \in LocalBranchLists :
         /\ vc.known => all = vc.local
         /\ LET exists == branchExists(vc.branch, resolved, all)
            IN  vc' = [vc EXCEPT !.pc = "stat", !.local = all, !.answered = resolved,
                                 !.exists = IF exists THEN "true" ELSE "false",
                                 !.errors = branchErrors(vc.errors, vc.branch, exists)]
    /\ Commit(World)
    /\ lastEvent' = noEvent
    /\ UNCHANGED <<repo, rm, cr, st, gc, gw, pw, tt, vg>>

\* vscode.workspace.fs.stat settles: the errors are returned
StatDone(statResolved) ==
    /\ vc.pc = "stat"
    /\ vc' = [vc EXCEPT !.pc = "done", !.stat = IF statResolved THEN "true" ELSE "false",
                        !.errors = pathErrors(vc.errors, vc.fullPath, statResolved)]
    /\ Commit(World)
    /\ lastEvent' = noEvent
    /\ UNCHANGED <<repo, rm, cr, st, gc, gw, pw, tt, vg>>

\* ------------------------------------------------------------ command aiDevWorkspace.createWorktree
\* what the name input box can be given; validateInput lets through the matching ones
CommandNames == { "a", "b", "a b" }

\* `project-${name}`
projectName(name) == CASE name = "a" -> "project-a" [] name = "b" -> "project-b"

\* what git.branch(['-r']) reports as `all`
RemoteBranchLists ==
    { <<>>, <<"origin/main">>, <<"origin/main", "origin/feat">>, <<"origin/main", " origin/feat">> }

\* String.prototype.trim on the names above
trim(b) == CASE b = " origin/feat" -> "origin/feat" [] OTHER -> b

\* [...new Set(list)]: the first occurrence of each value, in order
RECURSIVE unique(_, _)
unique(list, acc) ==
    IF list = <<>> THEN acc
    ELSE unique(Tail(list),
                IF \E i \in 1..Len(acc) : acc[i] = Head(list) THEN acc ELSE Append(acc, Head(list)))

\* GitService.getAllBranches: local names, then the trimmed remote names, de-duplicated;
\* the empty list when a git call rejects
getAllBranches(resolved, local, remote) ==
    IF resolved
    THEN unique(local \o [ i \in 1..Len(remote) |-> trim(remote[i]) ], <<>>)
    ELSE <<>>

\* step 1: the name input box answers with an accepted name; getAllBranches is awaited
CreateWorktreeCommand(name) ==
    /\ vc.pc \in {"idle", "done"}
    /\ matchesNamePattern(name)
    /\ vc' = [vcIdle EXCEPT !.pc = "branchLocal", !.name = projectName(name)]
    /\ Commit(World)
    /\ lastEvent' = noEvent
    /\ UNCHANGED <<repo, rm, cr, st, gc, gw, pw, tt, vg>>

\* git.branchLocal() settles inside getAllBranches
AllBranchesLocalDone(resolved) ==
    /\ vc.pc = "branchLocal"
    /\ \E all \in LocalBranchLists :
         vc' = IF resolved
               THEN [vc EXCEPT !.pc = "branchRemote", !.known = TRUE, !.local = all]
               ELSE [vc EXCEPT !.pc = "pick", !.offered = getAllBranches(FALSE, <<>>, <<>>)]
    /\ Commit(World)
    /\ lastEvent' = noEvent
    /\ UNCHANGED <<repo, rm, cr, st, gc, gw, pw, tt, vg>>

\* git.branch(['-r']) settles; the picker is shown with the names getAllBranches returns
AllBranchesRemoteDone(resolved) ==
    /\ vc.pc = "branchRemote"
    /\ \E remote \in RemoteBranchLists :
         vc' = [vc EXCEPT !.pc = "pick", !.offered = getAllBranches(resolved, vc.local, remote)]
    /\ Commit(World)
    /\ lastEvent' = noEvent
    /\ UNCHANGED <<repo, rm, cr, st, gc, gw, pw, tt, vg>>

\* step 2: the branch picker answers. An offered name is taken as it is, with createBranch
\* false; the options then go to validateCreateOptions (the tool picker in between carries
\* nothing into the validation)
PickBranch(selected) ==
    /\ vc.pc = "pick"
    /\ selected \in Range(vc.offered) \cup {"__new__", "__existing__", "undefined"}
    /\ vc' = CASE selected \in {"__existing__", "undefined"} -> [vc EXCEPT !.pc = "idle"]
               [] selected = "__new__" -> [vc EXCEPT !.pc = "newBranch"]
               [] OTHER -> ValidateBegin(vc, vc.name, selected, FALSE)
    /\ Commit(World)
    /\ lastEvent' = noEvent
    /\ UNCHANGED <<repo, rm, cr, st, gc, gw, pw, tt, vg>>

\* the new-branch input box answers: a name, or nothing
NewBranchInput(newBranch) ==
    /\ vc.pc = "newBranch"
    /\ vc' = IF newBranch = "" THEN [vc EXCEPT !.pc = "idle"]
             ELSE ValidateBegin(vc, vc.name, newBranch, TRUE)
    /\ Commit(World)
    /\ lastEvent' = noEvent
    /\ UNCHANGED <<repo, rm, cr, st, gc, gw, pw, tt, vg>>

\* ------------------------------------------------------------ GitService.validateGitVersion
\* text is a sequence of characters; the banner's opening words are one part
DigitValue(c) ==
    CASE c = "0" -> 0 [] c = "1" -> 1 [] c = "2" -> 2 [] c = "3" -> 3 [] c = "4" -> 4
      [] c = "5" -> 5 [] c = "6" -> 6 [] c = "7" -> 7 [] c = "8" -> 8 [] c = "9" -> 9

\* Number(s) of a string of decimal digits
RECURSIVE Number(_)
Number(chars) ==
    IF chars = <<>> THEN 0
    ELSE 10 * Number(SubSeq(chars, 1, Len(chars) - 1)) + DigitValue(chars[Len(chars)])

\* s.split('.'): the pieces between the dots
RECURSIVE split(_, _, _)
split(chars, piece, pieces) ==
    IF chars = <<>> THEN Append(pieces, piece)
    ELSE IF Head(chars) = "." THEN split(Tail(chars), <<>>, Append(pieces, piece))
    ELSE split(Tail(chars), Append(piece, Head(chars)), pieces)

versionParts_firstDigit(version) ==
    LET pieces == split(version, <<>>, <<>>)
    IN  [ i \in 1..Len(pieces) |-> DigitValue(pieces[i][1]) ]

\* version.split('.').map(Number)
versionParts(version) ==
    LET pieces == split(version, <<>>, <<>>)
    IN  [ i \in 1..Len(pieces) |-> Number(pieces[i]) ]

\* the loop of compareVersions from component i on
RECURSIVE compareFrom(_, _, _)
compareFrom(v1Parts, v2Parts, i) ==
    IF i > 3 THEN 0
    ELSE IF v1Parts[i] > v2Parts[i] THEN 1
    ELSE IF v1Parts[i] < v2Parts[i] THEN -1
    ELSE compareFrom(v1Parts, v2Parts, i + 1)

\* GitService.compareVersions
compareVersions(version1, version2) == compareFrom(versionParts(version1), versionParts(version2), 1)

\* the longest run of digits a text starts with (\d+ is greedy)
RECURSIVE takeDigits(_)
takeDigits(chars) ==
    IF chars # <<>> /\ Head(chars) \in Digits THEN <<Head(chars)>> \o takeDigits(Tail(chars)) ELSE <<>>

Drop(chars, n) == SubSeq(chars, n + 1, Len(chars))

\* (\d+\.\d+\.\d+) matched at the start of a text: the captured text, or <<>> when the
\* text does not start with three runs of digits separated by dots
matchTriple(chars) ==
    LET major == takeDigits(chars)
        afterMajor == Drop(chars, Len(major))
        minor == IF afterMajor # <<>> /\ Head(afterMajor) = "." THEN takeDigits(Tail(afterMajor)) ELSE <<>>
        afterMinor == Drop(afterMajor, Len(minor) + 1)
        patch == IF afterMinor # <<>> /\ Head(afterMinor) = "." THEN takeDigits(Tail(afterMinor)) ELSE <<>>
    IN  IF major # <<>> /\ minor # <<>> /\ patch # <<>>
        THEN major \o <<".">> \o minor \o <<".">> \o patch
        ELSE <<>>

\* versionResult.match(/git version (\d+\.\d+\.\d+)/): the capture of the first match in
\* the banner, or <<>> when there is none
RECURSIVE matchVersion(_)
matchVersion(banner) ==
    IF banner = <<>> THEN <<>>
    ELSE IF Head(banner) = "git version " /\ matchTriple(Tail(banner)) # <<>>
         THEN matchTriple(Tail(banner))
         ELSE matchVersion(Tail(banner))

\* what validateGitVersion returns once git.raw(['--version']) has settled
validateGitVersion(resolved, banner, minVersion) ==
    IF ~resolved THEN FALSE
    ELSE IF matchVersion(banner) = <<>> THEN FALSE
    ELSE compareVersions(matchVersion(banner), minVersion) >= 0

\* components of the versions tried, as written
VersionComponents == { <<"0">>, <<"9">>, <<"3", "0">>, <<"0", "9">> }

VersionTriples == VersionComponents \X VersionComponents \X VersionComponents

\* a triple written out: major.minor.patch
VersionText(t) == t[1] \o <<".">> \o t[2] \o <<".">> \o t[3]

\* banners `git --version` is tried with: the usual one, one with a vendor suffix, one
\* with two components only, one without the opening words, and the empty one
Banners ==
    { <<"git version ">> \o VersionText(t) : t \in VersionTriples }
      \cup { <<"git version ">> \o VersionText(t) \o <<".", "w", ".", "1">> : t \in VersionTriples }
      \cup { <<"git version ">> \o t[1] \o <<".">> \o t[2] : t \in VersionTriples }
      \cup { VersionText(t) : t \in VersionTriples }
      \cup { <<>> }

\* the configured minimum versions tried
MinVersions == { <<c, <<"3", "0">>, <<"0">>>> : c \in VersionComponents }
                 \cup { <<<<"9">>, c, <<"9">>>> : c \in VersionComponents }

InitVersion ==
    /\ InitRest
    /\ repo = <<MainEntry(FALSE)>>
    /\ pw = pwIdle
    /\ tt = ttActivated
    /\ \E banner \in Banners, min \in MinVersions :
         vg = [vgIdle EXCEPT !.banner = banner, !.minVersion = VersionText(min)]

\* validateGitVersion(minVersion): git.raw settles and the answer is returned
ValidateGitVersion(resolved) ==
    /\ ~vg.called
    /\ vg' = [vg EXCEPT !.called = TRUE, !.resolved = resolved,
                        !.result = validateGitVersion(resolved, vg.banner, vg.minVersion)]
    /\ Commit(World)
    /\ lastEvent' = noEvent
    /\ UNCHANGED <<repo, rm, cr, st, gc, gw, pw, tt, vc>>

\* ------------------------------------------------------------ specifications
\* terminals come and go, sessions are started from the picker
TrackerNext ==
    \/ \E t \in 1..MaxTerminals : CloseTerminal(t)
    \/ \E p \in AllPaths : OpenWorktreeTerminal(p)
    \/ \E p \in AllPaths : StartAICLICommand(p)
    \/ \E sel \in Tools \cup {"none"} : StartAICLIPick(sel)

RemoveNext ==
    \/ \E item \in TreeItems : RemoveWorktreeItem(item)
    \/ \E sel \in nonMainWorktrees : RemoveWorktreeFromPalette(sel)
    \/ \E c \in Confirmations : RemoveConfirm(c)
    \/ \E ok \in BOOLEAN : RemoveGitDone(ok)

CreateNext ==
    \/ \E n \in Names, b \in Branches, cb \in BOOLEAN, ls \in LabelSeqs, ow \in BOOLEAN, as \in BOOLEAN :
          CreateWorktree(n, b, cb, ls, ow, as)
    \/ \E ok \in BOOLEAN : CreateGitDone(ok)
    \/ \E ok \in BOOLEAN : CreateOpenDone(ok)
    \/ CreateToolsDone


\* the tracker alone: terminals opened, started from the picker, closed
SpecTracker == Init /\ [][TrackerNext]_vars

\* worktree creation against terminals closing
SpecCreate == Init /\ [][CreateNext \/ \E t \in 1..MaxTerminals : CloseTerminal(t)]_vars

\* sessions while worktrees are removed: at most MaxSessions of them
SessionNext ==
    \/ \E t \in 1..MaxTerminals : CloseTerminal(t)
    \/ \E p \in AllPaths : nextTerminal <= MaxSessions /\ StartAICLICommand(p)
    \/ \E sel \in Tools \cup {"none"} : StartAICLIPick(sel)

\* worktree removal against sessions starting and terminals closing
SpecRemove == Init /\ [][RemoveNext \/ SessionNext]_vars

ListNext ==
    \/ GetChildren
    \/ \E ok \in BOOLEAN : ListWorktreesDone(ok)
    \/ \E i \in 1..(1 + Cardinality(Names \cup ExistingNames)) : ChangesCountDone(i)

\* the tree view is read while sessions start and terminals close
SpecList == Init /\ [][ListNext \/ SessionNext]_vars

\* a repository with a linked worktree, activate() done
InitView ==
    /\ InitRest
    /\ \E n \in ExistingNames : repo = <<MainEntry(FALSE), FeatureEntry(n, "refs/heads/old")>>
    /\ pw = pwIdle
    /\ tt = ttActivated
    /\ vg = vgIdle

\* the tree view reads its data again once it was told that the data changed
TreeViewRereads == pending /\ GetChildren

\* sessions of the linked worktrees, with settings that enable one well-formed tool
ViewSessionNext ==
    \/ \E t \in 1..MaxTerminals : CloseTerminal(t)
    \/ \E p \in AllPaths \ {rootPath} :
          /\ nextTerminal <= MaxSessions
          /\ StartAICLICommand(p)
          /\ st'.pc = "pick"
          /\ DOMAIN st'.items = {"claude"}
          /\ st'.items["claude"].hasArgs
    \/ \E sel \in Tools \cup {"none"} : StartAICLIPick(sel)

\* the tree view with a host that re-reads after every change event and a git that answers
SpecView ==
    /\ InitView
    /\ [][ListNext \/ ViewSessionNext]_vars
    /\ WF_vars(TreeViewRereads)
    /\ WF_vars(\E ok \in BOOLEAN : ListWorktreesDone(ok))
    /\ WF_vars(\E i \in 1..(1 + Cardinality(Names \cup ExistingNames)) : ChangesCountDone(i))

\* the registry's public API driven directly: terminals open, are tracked (again), close
SpecRegistry ==
    Init /\ [][ \/ \E p \in AllPaths : OpenWorktreeTerminal(p)
                \/ \E t \in 1..MaxTerminals, p \in AllPaths : TrackTerminal(t, p, "claude")
                \/ \E t \in 1..MaxTerminals : CloseTerminal(t) ]_vars

\* before activate(): nothing constructed
InitBefore ==
    /\ InitRest
    /\ repo \in InitRepos
    /\ pw = pwIdle
    /\ tt = ttNone
    /\ vg = vgIdle

\* from before activate(): the consumers obtain the tracker, then sessions are started
\* through the manager and the provider's view is read
SpecSingleton ==
    InitBefore /\ [][ \/ Activate
                      \/ GetInstance
                      \/ (tt.manager # 0 /\ SessionNext)
                      \/ (tt.provider # 0 /\ ListNext) ]_vars

\* the tree view is read while sessions start, terminals close and worktrees go away
SpecOrphans ==
    Init /\ [][ListNext \/ SessionNext \/ \E p \in AllPaths : WorktreeRemovedOutside(p)]_vars

\* branch names the gateway is called with
GatewayBranches == Branches \cup {"main"}

GatewayNext ==
    \/ \E worktreePath \in AllPaths, branch \in GatewayBranches, createBranch \in BOOLEAN :
          GatewayCreateWorktree(worktreePath, branch, createBranch)
    \/ \E worktreePath \in AllPaths, force \in BOOLEAN : GatewayRemoveWorktree(worktreePath, force)
    \/ GitRawSettled

\* the gateway's create and remove calls on their own
SpecGateway == Init /\ [][GatewayNext]_vars

\* the parser on every listing of at most MaxLines lines
SpecParse == InitParse /\ [][ParseWorktreeList]_vars

ValidateNext ==
    \/ \E name \in ValidateNames, branch \in ValidateBranches, createBranch \in BOOLEAN :
          ValidateCreateOptions(name, branch, createBranch)
    \/ \E resolved \in BOOLEAN : BranchExistsDone(resolved)
    \/ \E statResolved \in BOOLEAN : StatDone(statResolved)

\* validateCreateOptions called with every name, branch and createBranch
SpecValidate == Init /\ [][ValidateNext]_vars

PickerNext ==
    \/ \E name \in CommandNames : CreateWorktreeCommand(name)
    \/ \E resolved \in BOOLEAN : AllBranchesLocalDone(resolved)
    \/ \E resolved \in BOOLEAN : AllBranchesRemoteDone(resolved)
    \/ \E selected \in ValidateBranches \cup {"origin/main", "__new__", "__existing__", "undefined"} :
          PickBranch(selected)
    \/ \E newBranch \in ValidateBranches \cup {""} : NewBranchInput(newBranch)

\* the create command from its name box to the end of the validation
SpecPicker ==
    Init /\ [][ \/ PickerNext
                \/ \E resolved \in BOOLEAN : BranchExistsDone(resolved)
                \/ \E statResolved \in BOOLEAN : StatDone(statResolved) ]_vars

\* validateGitVersion on every banner and minimum tried
SpecVersion == InitVersion /\ [][\E resolved \in BOOLEAN : ValidateGitVersion(resolved)]_vars

Next ==
    \/ TrackerNext
    \/ RemoveNext
    \/ CreateNext
    \/ ListNext
    \/ GatewayNext
    \/ ParseWorktreeList
    \/ ValidateNext
    \/ PickerNext
    \/ \E resolved \in BOOLEAN : ValidateGitVersion(resolved)
    \/ \E p \in AllPaths : WorktreeRemovedOutside(p)
    \/ \E t \in 1..MaxTerminals, p \in AllPaths : TrackTerminal(t, p, "claude")
    \/ Activate
    \/ GetInstance

\* the whole extension
Spec == Init /\ [][Next]_vars

\* ------------------------------------------------------------ properties of the session registry
SessionsOf(p) == SelectSeq(live, LAMBDA s : s.worktreePath = p)

C2_UntrackUnknownIsNoOp ==
    [][ (lastEvent'.op = "close" /\ ~lastEvent'.tracked)
          => /\ terminals' = terminals
             /\ delivered' = NoneDelivered
             /\ refreshed' = 0 ]_vars

\* an untracked terminal was just closed while sessions are tracked
C2_Witness ==
    /\ lastEvent.op = "close"
    /\ ~lastEvent.tracked
    /\ terminals # <<>>
    /\ delivered = NoneDelivered

\* C3: in every step each listener was called once per registry call that changed a bucket,
\* with that bucket's path, in the order of the calls
C3_OneEventPerMutationInOrder ==
    \A i \in 1..Len(Listeners) : delivered[Listeners[i]] = mutated

\* one step tracked two sessions, and the listener was called twice
C3_Witness ==
    /\ Len(mutated) = 2
    /\ Len(delivered[Listeners[1]]) = 2

\* C4: no bucket is empty; a path is a key of the map iff getTerminals is non-empty iff
\* hasActiveCLIs; closing the last session of a path deletes its key
C4_NoEmptyBucket ==
    /\ \A k \in 1..Len(terminals) : Len(terminals[k].val) > 0
    /\ \A p \in AllPaths :
          /\ (\E i \in 1..Len(getAllActiveWorktrees) : getAllActiveWorktrees[i] = p)
                <=> getTerminals(p) # <<>>
          /\ getTerminals(p) # <<>> <=> hasActiveCLIs(p)
    /\ (lastEvent.op = "close" /\ lastEvent.tracked)
          => \A i \in 1..Len(mutated) :
                SessionsOf(mutated[i]) = <<>> => ~MapHas(terminals, mutated[i])

\* the last session of one path was just closed, its key is gone, another path keeps its bucket
C4_Witness ==
    /\ lastEvent.op = "close"
    /\ lastEvent.tracked
    /\ Len(mutated) = 1
    /\ ~MapHas(terminals, mutated[1])
    /\ terminals # <<>>

\* ------------------------------------------------------------ properties of removeWorktree
\* the gateway's remove call was invoked by the removeWorktree call on record
GatewayRemoveInvoked == rm.gitArgs # <<>>

\* C5: removeWorktree on a record with isMain = true never invokes the gateway's remove
\* call and never succeeds, whatever the changes and the answer, from either command
C5_MainNeverRemoved ==
    rm.wt.isMain => (~GatewayRemoveInvoked /\ rm.result # "true")

\* C6: an answer other than 'Remove' makes removeWorktree return false without invoking
\* the gateway, and the call (from its start to its return) changes neither the
\* worktrees nor the registry
C6_NotConfirmedChangesNothing ==
    [][ /\ (rm.pc = "prompt" /\ rm' # rm /\ rm'.confirmation # "Remove")
            => /\ rm'.pc = "done"
               /\ rm'.result = "false"
               /\ rm'.gitArgs = <<>>
               /\ repo' = repo
               /\ terminals' = terminals
               /\ delivered' = NoneDelivered
        /\ rm'.pc = "prompt"
            => /\ rm'.gitArgs = <<>>
               /\ repo' = repo
               /\ (rm' # rm => terminals' = terminals) ]_vars

\* a dirty record's prompt was dismissed or cancelled while sessions are tracked
C6_Witness ==
    /\ rm.pc = "done"
    /\ rm.confirmation \in {"Cancel", "undefined"}
    /\ rm.hasChanges
    /\ rm.result = "false"
    /\ terminals # <<>>

\* C7: whenever the gateway's remove call is invoked, --force is passed iff the record's
\* changes is present and > 0, and then only after the uncommitted-changes warning was
\* answered 'Remove'
C7_ForceIffChanges ==
    GatewayRemoveInvoked
      => /\ HasForce(rm.gitArgs) <=> ("changes" \in DOMAIN rm.wt /\ rm.wt.changes > 0)
         /\ HasForce(rm.gitArgs) => (rm.message = "uncommitted" /\ rm.confirmation = "Remove")
         /\ ArgPath(rm.gitArgs) = rm.wt.path

\* the gateway is being invoked with --force
C7_Witness ==
    /\ rm.pc = "git"
    /\ HasForce(rm.gitArgs)
    /\ rm.wt.changes > 0

\* C8: for a locked record the plain question answered 'Remove' does not invoke the
\* gateway's remove call
C8_LockedNotRemovedOnPlainConfirmation ==
    (rm.wt.isLocked /\ rm.message = "plain") => ~GatewayRemoveInvoked

\* ------------------------------------------------------------ properties of createWorktree
\* C9: when the gateway's createWorktree fails, createWorktree returns false in that step
\* without opening a window, starting a terminal or tracking one
C9_GatewayFailureAborts ==
    [][ (cr.pc = "git" /\ cr'.gitOk = "false")
          => /\ cr'.pc = "done"
             /\ cr'.result = "false"
             /\ cr'.opened = <<>>
             /\ nextTerminal' = nextTerminal
             /\ openTerminals' = openTerminals
             /\ terminals' = terminals
             /\ mutated' = <<>>
             /\ repo' = repo ]_vars

\* a request asking for a window and tools failed at the gateway while sessions are tracked
C9_Witness ==
    /\ cr.pc = "done"
    /\ cr.gitOk = "false"
    /\ cr.result = "false"
    /\ cr.options.openInNewWindow
    /\ cr.options.autoStartTerminal
    /\ terminals # <<>>

\* the labels whose start succeeds under the settings read: enabled, with args
StartedLabels(labels, settings) ==
    SelectSeq(labels, LAMBDA n : settings[n].enabled /\ settings[n].hasArgs)

\* a label whose start throws under the settings read
FailsToStart(n, settings) == settings[n].enabled /\ ~settings[n].hasArgs

\* C10: the step that starts the tools tracks a session for every label whose start
\* succeeds, in label order, whether or not another label's start fails; the worktree
\* stays, and the return after a failure untracks nothing
C10_OtherLabelsStillStart ==
    [][ /\ (cr.pc # "tools" /\ cr'.pc = "tools")
            => /\ getActiveCLIs(cr.fullPath)'
                    = getActiveCLIs(cr.fullPath) \o StartedLabels(cr'.options.cliTools, cr'.settings)
               /\ cr'.rejected <=> \E i \in 1..Len(cr'.options.cliTools) :
                                       FailsToStart(cr'.options.cliTools[i], cr'.settings)
               /\ cr'.fullPath \in RepoPaths'
        /\ (cr.pc = "tools" /\ cr'.pc = "done")
            => /\ terminals' = terminals
               /\ repo' = repo
               /\ cr'.result = (IF cr.rejected THEN "false" ELSE "true") ]_vars

\* the first of two labels failed to start, the second is tracked, the worktree exists,
\* createWorktree returned false
C10_Witness ==
    /\ cr.pc = "done"
    /\ cr.rejected
    /\ Len(cr.options.cliTools) = 2
    /\ FailsToStart(cr.options.cliTools[1], cr.settings)
    /\ getActiveCLIs(cr.fullPath) = <<cr.options.cliTools[2]>>
    /\ cr.fullPath \in RepoPaths

\* the requested labels that are enabled in the settings read
EnabledLabels(labels, settings) == SelectSeq(labels, LAMBDA n : settings[n].enabled)

\* C11: a createWorktree call that succeeds after starting tools has tracked, in the step
\* that started them, one session per requested enabled label under path.join(rootPath,
\* basePath, name) and nothing else; no other step of a createWorktree call changes the
\* registry, so a call without auto-start or without labels leaves it unchanged
C11_OneSessionPerEnabledLabel ==
    [][ /\ (cr.pc # "tools" /\ cr'.pc = "tools" /\ ~cr'.rejected)
            => /\ cr'.options.autoStartTerminal /\ Len(cr'.options.cliTools) > 0
               /\ cr'.fullPath = pathJoin(rootPath, cr'.options.basePath, cr'.options.name)
               /\ getActiveCLIs(cr.fullPath)'
                    = getActiveCLIs(cr.fullPath) \o EnabledLabels(cr'.options.cliTools, cr'.settings)
               /\ \A p \in AllPaths \ {cr'.fullPath} : getTerminals(p)' = getTerminals(p)
               /\ nextTerminal' - nextTerminal
                    = Len(EnabledLabels(cr'.options.cliTools, cr'.settings))
        /\ (cr' # cr /\ cr'.pc # "tools") => terminals' = terminals
        /\ (cr'.pc = "tools" /\ cr.pc # "tools")
            => (cr'.options.autoStartTerminal /\ Len(cr'.options.cliTools) > 0)
        /\ (cr.pc = "tools" /\ cr'.pc = "done" /\ ~cr.rejected) => cr'.result = "true" ]_vars

\* createWorktree returned true after starting two requested labels: the destination
\* carries exactly the two labels
C11_Witness ==
    /\ cr.pc = "done"
    /\ cr.result = "true"
    /\ cr.options.autoStartTerminal
    /\ Len(cr.options.cliTools) = 2
    /\ getActiveCLIs(cr.fullPath) = cr.options.cliTools

\* ------------------------------------------------------------ properties of getChildren
\* the record getChildren returned for a path
ResultsFor(p) == SelectSeq(gc.result, LAMBDA r : r.path = p)

\* the sessions' labels the callback of worktree i read when its lookup settled
LabelsRead(i) == gc.enriched[i].activeCLIs

\* C12: whatever the order in which the lookups settle, getChildren returns one record per
\* listed worktree, carrying the change count of its own path and the labels tracked for
\* its own path when its lookup settled, and the repository's main worktree comes first
C12_OneRecordPerWorktreeMainFirst ==
    (gc.pc = "done" /\ gc.listOk)
      => /\ Len(gc.result) = Len(gc.worktrees)
         /\ \A i \in 1..Len(gc.worktrees) :
               LET p == gc.worktrees[i].path
               IN  /\ Len(ResultsFor(p)) = 1
                   /\ ResultsFor(p)[1].changes = getChangesCount(gc.status[p])
                   /\ ResultsFor(p)[1].activeCLIs = LabelsRead(i)
         /\ (gc.result # <<>> => gc.result[1].path = repo[1].path)

C17_ExactlyOneMainIsPrimary ==
    (gc.pc \in {"enrich", "done"} /\ gc.listOk /\ gc.worktrees # <<>>)
      => /\ gc.worktrees[1].isMain
         /\ \A i \in 2..Len(gc.worktrees) : ~gc.worktrees[i].isMain

\* ------------------------------------------------------------ properties of the gateway
\* C15: a gateway create or remove call always returns a result: when the invocation
\* failed, success = false and the error text is the rejection's message as it is; when
\* it succeeded, success = true and an output message is present
C15_GatewayReturnsResult ==
    gw.pc = "done"
      => IF gw.outcome.resolved
         THEN /\ gw.result.success
              /\ "output" \in DOMAIN gw.result
              /\ gw.result.output.path = gw.worktreePath
         ELSE /\ ~gw.result.success
              /\ "error" \in DOMAIN gw.result
              /\ gw.outcome.error.isError => gw.result.error = gw.outcome.error.message
              /\ (~gw.outcome.error.isError /\ gw.outcome.error.value.type = "string")
                    => gw.result.error = gw.outcome.error.value.s

\* a create call failed with a non-empty message and returned it
C15_Witness ==
    /\ gw.pc = "done"
    /\ gw.op = "create"
    /\ ~gw.outcome.resolved
    /\ gw.outcome.error.isError
    /\ gw.result = [success |-> FALSE, error |-> "fatal: invalid reference"]

\* C16: a gateway create call issues exactly one invocation, `worktree add -b <branch>
\* <path>` when createBranch is set and `worktree add <path> <branch>` when it is not
C16_CreateInvocation ==
    [][ \A worktreePath \in AllPaths, branch \in GatewayBranches, createBranch \in BOOLEAN :
          GatewayCreateWorktree(worktreePath, branch, createBranch)
            => gw'.invocations =
                 << IF createBranch
                    THEN <<Word("worktree"), Word("add"), Word("-b"), Word(branch),
                           PathArg(worktreePath)>>
                    ELSE <<Word("worktree"), Word("add"), PathArg(worktreePath), Word(branch)>> >> ]_vars

\* a create call without createBranch has settled, its one invocation ending in the branch
C16_Witness ==
    /\ gw.pc = "done"
    /\ gw.op = "create"
    /\ Len(gw.invocations) = 1
    /\ Len(gw.invocations[1]) = 4
    /\ gw.invocations[1][4] = Word("main")

\* ------------------------------------------------------------ properties of the parser
IsWorktreeLine(line) == line.kw = "worktree" /\ "rest" \in DOMAIN line
IsHeadLine(line) == line.kw = "HEAD" /\ "rest" \in DOMAIN line
IsBranchLine(line) == line.kw = "branch" /\ "rest" \in DOMAIN line

\* the `worktree <path>` lines of a listing, in order
WorktreeLines(output) == SelectSeq(output, IsWorktreeLine)

\* C18: parseWorktreeList returns one record per `worktree <path>` line, in input order,
\* with that line's path: the last block is not lost, lines before the first block give
\* no record, and the empty input gives the empty sequence
C18_OneRecordPerWorktreeLine ==
    pw.called
      => /\ Len(pw.worktrees) = Len(WorktreeLines(pw.output))
         /\ \A k \in 1..Len(pw.worktrees) : pw.worktrees[k].path = WorktreeLines(pw.output)[k].rest

\* a listing that starts with a line outside any block and ends with a bare `worktree`
\* line was parsed into two records
C18_Witness ==
    /\ pw.called
    /\ Len(pw.output) >= 3
    /\ ~IsWorktreeLine(pw.output[1])
    /\ pw.output[1].kw # ""
    /\ IsWorktreeLine(pw.output[Len(pw.output)])
    /\ Len(pw.worktrees) = 2

\* positions of the `worktree <path>` lines, and the lines of the k-th block below its
\* `worktree` line
Starts(output) == { i \in 1..Len(output) : IsWorktreeLine(output[i]) }
BlockStart(output, k) ==
    CHOOSE i \in Starts(output) : Cardinality({ j \in Starts(output) : j < i }) = k - 1
BlockEnd(output, k) ==
    IF k = Cardinality(Starts(output)) THEN Len(output) ELSE BlockStart(output, k + 1) - 1
BlockLines(output, k) == SubSeq(output, BlockStart(output, k) + 1, BlockEnd(output, k))

\* C19: the k-th record is determined by the lines of the k-th block alone: isMain iff the
\* block has a `bare` line, isLocked iff it has a `locked` line with or without a reason,
\* commit and branch those of its last HEAD and branch line and absent without one; lines
\* before the first block and lines of other blocks change nothing
C19_AttributesStayInBlock ==
    pw.called
      => /\ Len(pw.worktrees) = Cardinality(Starts(pw.output))
         /\ \A k \in 1..Len(pw.worktrees) :
               LET b == BlockLines(pw.output, k)
                   r == pw.worktrees[k]
                   heads == SelectSeq(b, IsHeadLine)
                   branches == SelectSeq(b, IsBranchLine)
               IN  /\ r.isMain = (\E i \in 1..Len(b) : b[i] = [kw |-> "bare"])
                   /\ r.isLocked = (\E i \in 1..Len(b) : b[i].kw = "locked")
                   /\ ("commit" \in DOMAIN r) = (heads # <<>>)
                   /\ heads # <<>> => r.commit = heads[Len(heads)].rest
                   /\ ("branch" \in DOMAIN r) = (branches # <<>>)
                   /\ branches # <<>> => r.branch = branches[Len(branches)].rest

\* `bare` in block 1 and `locked` with a reason in block 2 were parsed into a main,
\* unlocked record followed by a locked record that is not main
C19_Witness ==
    /\ pw.called
    /\ Len(pw.output) = 4
    /\ pw.output[2] = [kw |-> "bare"]
    /\ pw.output[4] = [kw |-> "locked", rest |-> <<"reason">>]
    /\ Len(pw.worktrees) = 2
    /\ pw.worktrees[1].isMain /\ ~pw.worktrees[1].isLocked
    /\ ~pw.worktrees[2].isMain /\ pw.worktrees[2].isLocked

\* a record written back as a block: worktree, HEAD and branch when present, bare when
\* isMain, locked when isLocked, and the blank line that ends a block
serializeRecord(r) ==
    <<[kw |-> "worktree", rest |-> r.path]>>
      \o (IF "commit" \in DOMAIN r THEN <<[kw |-> "HEAD", rest |-> r.commit]>> ELSE <<>>)
      \o (IF "branch" \in DOMAIN r THEN <<[kw |-> "branch", rest |-> r.branch]>> ELSE <<>>)
      \o (IF r.isMain THEN <<[kw |-> "bare"]>> ELSE <<>>)
      \o (IF r.isLocked THEN <<[kw |-> "locked"]>> ELSE <<>>)
      \o <<[kw |-> ""]>>

RECURSIVE serialize(_)
serialize(records) ==
    IF records = <<>> THEN <<>> ELSE serializeRecord(Head(records)) \o serialize(Tail(records))

\* C20: parsing the serialization of the parsed records gives the same records again,
\* field by field
C20_RoundTrip ==
    pw.called => parseWorktreeList(serialize(pw.worktrees)) = pw.worktrees

\* a block with a HEAD line, no branch line, a line the parser does not know and a lock
\* with a reason was parsed and round-trips
C20_Witness ==
    /\ pw.called
    /\ \E i \in 1..Len(pw.output) : pw.output[i].kw = "detached"
    /\ \E i \in 1..Len(pw.output) : pw.output[i] = [kw |-> "locked", rest |-> <<"reason">>]
    /\ Len(pw.worktrees) = 1
    /\ "commit" \in DOMAIN pw.worktrees[1]
    /\ "branch" \notin DOMAIN pw.worktrees[1]
    /\ pw.worktrees[1].isLocked
    /\ serialize(pw.worktrees) # pw.output

\* ------------------------------------------------------------ properties of validateCreateOptions
NameMessage == [text |-> "Worktree name must contain only letters, numbers, hyphens, and underscores"]

\* C21: validateCreateOptions returns, in this order, the name message iff the name does
\* not match the pattern, the branch message iff no branch is created and branchExists
\* answered false, and the path message iff the destination exists; nothing else, and no
\* check is skipped because an earlier one failed
C21_AllViolationsCollected ==
    vc.pc = "done"
      => vc.errors =
           (IF matchesNamePattern(vc.name) THEN <<>> ELSE <<NameMessage>>)
             \o (IF ~vc.createBranch /\ vc.exists = "false"
                 THEN <<[text |-> "Branch does not exist", branch |-> vc.branch]>> ELSE <<>>)
             \o (IF vc.stat = "true"
                 THEN <<[text |-> "Path already exists: ", path |-> vc.fullPath]>> ELSE <<>>)

\* the name with a space failed all three checks: three messages
C21_Witness ==
    /\ vc.pc = "done"
    /\ vc.name = "feat auth"
    /\ ~vc.createBranch
    /\ Len(vc.errors) = 3
    /\ vc.errors[1] = NameMessage

\* ------------------------------------------------------------ properties of validateGitVersion
\* the number a component stands for
ComponentValue(c) ==
    CASE c = <<"0">> -> 0 [] c = <<"9">> -> 9 [] c = <<"3", "0">> -> 30 [] c = <<"0", "9">> -> 9

\* triple a is below triple b: the first component that differs is smaller in a
Below(a, b) ==
    \E i \in 1..3 :
       /\ ComponentValue(a[i]) < ComponentValue(b[i])
       /\ \A j \in 1..(i - 1) : ComponentValue(a[j]) = ComponentValue(b[j])

\* the banners that carry the triple a right after their opening words
BannersOf(a) ==
    { <<"git version ">> \o VersionText(a),
      <<"git version ">> \o VersionText(a) \o <<".", "w", ".", "1">> }

\* C22: compareVersions is the integer-wise comparison of the triples, the first differing
\* component deciding (0 iff all equal, negative iff below, positive iff above), and
\* validateGitVersion answers true exactly when git answered and the banner carries a
\* triple that is not below the minimum
C22_VersionComparison ==
    vg.called
      => /\ \A a \in VersionTriples, b \in MinVersions :
              (vg.banner \in BannersOf(a) /\ vg.minVersion = VersionText(b))
                => LET cmp == compareVersions(VersionText(a), VersionText(b))
                   IN  /\ (cmp = 0) = (\A i \in 1..3 : ComponentValue(a[i]) = ComponentValue(b[i]))
                       /\ (cmp < 0) = Below(a, b)
                       /\ (cmp > 0) = Below(b, a)
                       /\ compareVersions(VersionText(b), VersionText(a)) = -cmp
                       /\ vg.result = (vg.resolved /\ ~Below(a, b))
         /\ (\A a \in VersionTriples : vg.banner \notin BannersOf(a)) => ~vg.result

\* the banner says 9.9.0 and the minimum is 9.30.0: not valid, although "9" sorts after "30"
C22_Witness ==
    /\ vg.called
    /\ vg.resolved
    /\ vg.banner = <<"git version ", "9", ".", "9", ".", "0">>
    /\ vg.minVersion = <<"9", ".", "3", "0", ".", "0">>
    /\ ~vg.result

\* ------------------------------------------------------------ properties across components
\* the terminals the registry holds
Handles(m) == UNION { { m[k].val[i].terminal : i \in 1..Len(m[k].val) } : k \in 1..Len(m) }

\* C23: in every step the terminals that become tracked are exactly the terminals startAICLI
\* sent its command to in that step, each created in that same step; so no close event
\* comes between a start and its track, and every tracked terminal is still open
C23_TrackedInTheStepOfItsStart ==
    [][ /\ Handles(terminals') \ Handles(terminals) = Range(sent')
        /\ Range(sent') \subseteq openTerminals' \ openTerminals
        /\ Handles(terminals') \subseteq openTerminals' ]_vars

\* one step of createWorktree started and tracked a session while another launch of the
\* same step threw
C23_Witness ==
    /\ cr.pc = "tools"
    /\ cr.rejected
    /\ Len(sent) >= 1
    /\ Range(sent) \subseteq Handles(terminals)

\* the labels of the sessions tracked for a path and not closed since, in track order
LabelsOf(p) == [ i \in 1..Len(SessionsOf(p)) |-> SessionsOf(p)[i].cliName ]

\* C24: the step in which the lookup of worktree i settles reads the registry once: record
\* i gets the labels tracked for its own path at that instant, the step changes no bucket,
\* and the record keeps these labels until getChildren returns, whatever is tracked or
\* untracked in between
C24_LabelsOfOneInstant ==
    [][ gc'.pc \in {"enrich", "done"}
          => \A i \in DOMAIN gc'.enriched :
                IF i \in DOMAIN gc.enriched
                THEN gc'.enriched[i] = gc.enriched[i]
                ELSE /\ gc'.enriched[i].activeCLIs = LabelsOf(gc.worktrees[i].path)
                     /\ terminals' = terminals ]_vars

\* getChildren returned a record with the label its path had when it was queried, and
\* that session's terminal closed before the call returned
C24_Witness ==
    /\ gc.pc = "done"
    /\ \E k \in 1..Len(gc.result) :
         /\ gc.result[k].activeCLIs # <<>>
         /\ getActiveCLIs(gc.result[k].path) = <<>>

\* paths with sessions in the registry as read for worktree i that the listing lacks
OrphansAt(i) == MapKeys(gc.registry[i]) \ { gc.worktrees[k].path : k \in 1..Len(gc.worktrees) }

\* the labels a registry holds for a path
LabelsIn(registry, p) == [ k \in 1..Len(MapGet(registry, p)) |-> MapGet(registry, p)[k].cliName ]

ViewShowsRegistry ==
    /\ gc.pc = "done"
    /\ ~pending
    /\ \A k \in 1..Len(gc.result) : gc.result[k].activeCLIs = getActiveCLIs(gc.result[k].path)

\* C26: every change of the registry notifies the provider once and the provider calls
\* refresh once per notification, and every refresh is followed by a completed re-read of
\* the view that began after it and shows the registry as it is then
C26_ChangeLeadsToReread ==
    /\ [][ /\ Len(delivered'["WorktreeProvider"]) = Len(mutated')
           /\ refreshed' = Len(delivered'["WorktreeProvider"])
           /\ refreshed' > 0 => pending' ]_vars
    /\ (pending ~> ViewShowsRegistry)

\* a tracked session's terminal has just closed: one notification, one refresh, and the
\* view has to be read again
C26_Witness ==
    /\ lastEvent.op = "close"
    /\ lastEvent.tracked
    /\ refreshed = 1
    /\ pending
    /\ gc.pc = "done"

\* C27: at most one tracker is ever constructed and it registered one close listener; the
\* manager, the provider and any other consumer hold that same instance, so the labels the
\* provider reads are those of the registry the manager tracks into
C27_OneRegistry ==
    /\ tt.constructed <= 1
    /\ tt.closeListeners = tt.constructed
    /\ \A held \in {tt.manager, tt.provider, tt.other} : held # 0 => held = tt.instance
    /\ \A i \in DOMAIN gc.enriched :
          gc.enriched[i].activeCLIs = LabelsIn(gc.registry[i], gc.worktrees[i].path)

\* another consumer obtained the tracker before activate(), and a session started through
\* the manager shows in a record the provider built
C27_Witness ==
    /\ tt.other # 0
    /\ tt.manager = tt.other
    /\ tt.provider = tt.other
    /\ tt.closeListeners = 1
    /\ \E i \in DOMAIN gc.enriched : gc.enriched[i].activeCLIs # <<>>

\* C28: no step of removeWorktree changes the registry or delivers a registry event; after
\* a successful removal every session of the removed path whose terminal has not closed is
\* still in that path's bucket, and the path is still among the tracked paths
C28_RemovalLeavesRegistry ==
    [][ /\ rm' # rm =>
              /\ terminals' = terminals
              /\ mutated' = <<>>
              /\ delivered' = NoneDelivered
        /\ rm'.result = "true" =>
              \A k \in 1..Len(live') :
                  live'[k].worktreePath = rm'.wt.path =>
                      /\ \E j \in 1..Len(MapGet(terminals', rm'.wt.path)) :
                            MapGet(terminals', rm'.wt.path)[j].terminal = live'[k].terminal
                      /\ MapHas(terminals', rm'.wt.path) ]_vars

\* a worktree with a tracked session was removed: git no longer lists it, its session is
\* still in the registry
C28_Witness ==
    /\ rm.pc = "done"
    /\ rm.result = "true"
    /\ \A i \in 1..Len(repo) : repo[i].path # rm.wt.path
    /\ getTerminals(rm.wt.path) # <<>>
    /\ \E i \in 1..Len(getAllActiveWorktrees) : getAllActiveWorktrees[i] = rm.wt.path

\* the position of the first bucket holding the handle, 0 when no bucket holds it
FirstBucket(m, t) ==
    IF \E k \in 1..Len(m) : \E j \in 1..Len(m[k].val) : m[k].val[j].terminal = t
    THEN Min({ k \in 1..Len(m) : \E j \in 1..Len(m[k].val) : m[k].val[j].terminal = t })
    ELSE 0

Occurrences(m, t) ==
    { <<k, j>> \in (1..Len(m)) \X (1..MaxTracked) : j <= Len(m[k].val) /\ m[k].val[j].terminal = t }

\* C29: one close event removes at most one session and fires at most one event: the
\* number of sessions drops by exactly 1 when a bucket holds the handle (and one event
\* fires) and by 0 otherwise (and none fires); every bucket other than the first one
\* holding the handle is unchanged, also when the handle is tracked more than once
C29_UntrackRemovesOne ==
    [][ lastEvent'.op = "close" =>
          LET t == lastEvent'.terminal
              b == FirstBucket(terminals, t)
          IN  /\ CountTracked(terminals') = CountTracked(terminals) - (IF b = 0 THEN 0 ELSE 1)
              /\ refreshed' = (IF b = 0 THEN 0 ELSE 1)
              /\ Len(delivered'["WorktreeProvider"]) = (IF b = 0 THEN 0 ELSE 1)
              /\ \A k \in 1..Len(terminals) :
                    k # b => MapGet(terminals', terminals[k].key) = terminals[k].val
              /\ MapKeys(terminals') \subseteq MapKeys(terminals)
              /\ Cardinality(Occurrences(terminals', t)) =
                    Cardinality(Occurrences(terminals, t)) - (IF b = 0 THEN 0 ELSE 1) ]_vars

\* a terminal tracked twice was closed: one of its two sessions is still in the registry
C29_Witness ==
    /\ lastEvent.op = "close"
    /\ lastEvent.terminal \notin openTerminals
    /\ Cardinality(Occurrences(terminals, lastEvent.terminal)) = 1
    /\ Len(delivered["WorktreeProvider"]) = 1
    /\ CountTracked(terminals) = MaxTracked - 1

\* ------------------------------------------------------------ properties of the branch picker
\* C30: a branch picked from the names getAllBranches offered is not rejected by the
\* branch check of validateCreateOptions (git answering, the local branches unchanged)
C30_OfferedBranchesPass ==
    ( /\ vc.pc \in {"stat", "done"}
      /\ ~vc.createBranch
      /\ vc.known
      /\ vc.answered
      /\ vc.branch \in Range(vc.offered) )
      => /\ vc.exists = "true"
         /\ \A i \in 1..Len(vc.errors) : "branch" \notin DOMAIN vc.errors[i]

====
